---- MODULE Spec2Model ----
(***************************************************************************)
(* A model of HORUS: the disk cache (src/storage.rs), the account scoring  *)
(* of src/user/mod.rs and the Duplex pipeline of src/store.rs.             *)
(*                                                                         *)
(* Conventions.  An Option<T> is a sequence of length at most one: None is *)
(* <<>> and Some(x) is <<x>>.  A table of the SQLite cache with a UNIQUE   *)
(* key column is a function whose domain is the set of keys that have a    *)
(* row.  Times are whole seconds.  An IPv4 address is its four octets.     *)
(***************************************************************************)
EXTENDS Integers, Sequences, FiniteSets, TLC

VARIABLES
    now,                 \* the wall clock, Local::now(), in seconds
    ticks,               \* how many times the clock has advanced
    investigated_users,  \* table investigated_users: name -> time
    misc,                \* table misc: key -> value
    markedAt,            \* history: name -> time of the last mark_investigated(name, true) call
    unmarkedSince,       \* history: names un-marked after their last mark call
    lastSet,             \* history: key -> value of the last set_misc(key, value) call
    account,             \* a User on which first_vibe_check is called
    ret,                 \* what the last first_vibe_check(account) returned
    ended,               \* where that call returned
    travel,              \* the travel accumulator of that call, in 1/1024
    runs,                \* the number of calls so far
    marks,               \* the number of mark_investigated calls so far
    population,          \* what Splunk holds: name -> the logs of the account
    hdtools_on,          \* whether queries.hdtools is Some
    pc,                  \* where the thread of run_duplex is
    users,               \* the Vec<User> the pass at hand iterates over
    next_idx,            \* the position of the iterator in users
    kept,                \* what filter_map has yielded so far
    returned,            \* the Vec<User> the thread returns
    progress,            \* Store.progress, as num / den
    lock,                \* who holds the Mutex of the storage
    hdtools,             \* table hdtools: name -> row
    ipinfo,              \* table ipinfo: ip -> row
    events,              \* history: the accounts each pass has evaluated, in order
    checks,              \* history: name -> what investigated() answered, and when
    input,               \* the argument of a function taken on its own
    output,              \* None, or Some of what the function has returned
    ipthreat,            \* table ipthreat: ip -> row
    failed_ips,          \* Store.failed_ips
    lookups,             \* history: the calls of IPQuery, in order
    calls,               \* the number of get_ipthreat calls so far
    caller,              \* where the thread of the window is in get_ipthreat
    simplex              \* where the thread of run_simplex is

None == <<>>
Some(x) == <<x>>
IsSome(o) == o # <<>>
Unwrap(o) == o[1]

----------------------------------------------------------------------------
(* Bounds of the model                                                     *)

MaxTicks == 2
TickSteps == {60, 86340}
Names == {"alice", "bob"}
Values == {"zed", "amy"}

----------------------------------------------------------------------------
(* src/storage.rs                                                          *)

UserName == 0
AnalystName == 1
MiscKeys == {UserName, AnalystName}

investigation_expiration == 86400

\* SELECT time FROM investigated_users WHERE name = :name, as query_row:
\* the time of the row, or QueryReturnedNoRows.
SelectInvestigated(tbl, user) ==
    IF user \in DOMAIN tbl THEN Some(tbl[user]) ELSE None

investigated_wrong_cmp(tbl, clock, user) ==
    LET row == SelectInvestigated(tbl, user) IN
    IF ~IsSome(row) THEN FALSE
    ELSE (clock - Unwrap(row)) <= investigation_expiration

\* Storage::investigated: false when there is no row, else
\* Local::now() - time < Duration::seconds(86400).
investigated(tbl, clock, user) ==
    LET row == SelectInvestigated(tbl, user) IN
    IF ~IsSome(row) THEN FALSE
    ELSE LET time == clock - Unwrap(row) IN
         time < investigation_expiration

\* INSERT INTO investigated_users VALUES (?1, ?2).  name is UNIQUE: the
\* insert of a name that has a row fails and leaves the table as it was.
InsertInvestigated(tbl, user, time) ==
    IF user \in DOMAIN tbl
    THEN [ok |-> FALSE, tbl |-> tbl]
    ELSE [ok |-> TRUE,
          tbl |-> [n \in DOMAIN tbl \cup {user} |->
                     IF n = user THEN time ELSE tbl[n]]]

\* DELETE FROM investigated_users WHERE name = ?1
DeleteInvestigated(tbl, user) ==
    [ok |-> TRUE, tbl |-> [n \in DOMAIN tbl \ {user} |-> tbl[n]]]

\* Storage::mark_investigated: the table after the call.  An Err of
\* execute is logged and nothing else happens.
mark_investigated(tbl, clock, user, mark) ==
    IF mark
    THEN InsertInvestigated(tbl, user, clock).tbl
    ELSE DeleteInvestigated(tbl, user).tbl

\* SELECT value FROM misc WHERE key = ?1; String::default() when no row.
get_misc(tbl, key) ==
    IF key \in DOMAIN tbl THEN tbl[key] ELSE ""

get_username(tbl) == get_misc(tbl, UserName)
get_analyst_name(tbl) == get_misc(tbl, AnalystName)

\* UPDATE misc SET value = ?2 WHERE key = ?1.  An UPDATE whose WHERE
\* matches no row is not an error: execute returns Ok(0).
UpdateMisc(tbl, key, value) ==
    [ok |-> TRUE,
     tbl |-> [k \in DOMAIN tbl |-> IF k = key THEN value ELSE tbl[k]]]

\* INSERT INTO misc VALUES (?1, ?2); key is UNIQUE.
InsertMisc(tbl, key, value) ==
    IF key \in DOMAIN tbl
    THEN [ok |-> FALSE, tbl |-> tbl]
    ELSE [ok |-> TRUE,
          tbl |-> [k \in DOMAIN tbl \cup {key} |->
                     IF k = key THEN value ELSE tbl[k]]]

\* Storage::set_misc: the INSERT runs only if the UPDATE returned Err.
set_misc(tbl, key, value) ==
    LET upd == UpdateMisc(tbl, key, value) IN
    IF ~upd.ok THEN InsertMisc(tbl, key, value).tbl ELSE upd.tbl

set_username(tbl, value) == set_misc(tbl, UserName, value)
set_analyst_name(tbl, value) == set_misc(tbl, AnalystName, value)

----------------------------------------------------------------------------
(* src/user/login.rs: one Duo log                                          *)

VPN_IPS == {<<130, 127, 255, 220>>, <<130, 127, 255, 222>>, <<0, 0, 0, 0>>}

\* Login::is_vpn_ip
is_vpn_ip(login) ==
    IF IsSome(login.ip) THEN Unwrap(login.ip) \in VPN_IPS ELSE FALSE

\* The std::net::Ipv4Addr predicates Login::is_priv_ip calls.
is_private(ip) ==
    \/ ip[1] = 10
    \/ ip[1] = 172 /\ ip[2] >= 16 /\ ip[2] <= 31
    \/ ip[1] = 192 /\ ip[2] = 168
is_loopback(ip) == ip[1] = 127
is_link_local(ip) == ip[1] = 169 /\ ip[2] = 254
is_multicast(ip) == ip[1] >= 224 /\ ip[1] <= 239
is_broadcast(ip) == ip = <<255, 255, 255, 255>>
is_documentation(ip) ==
    \/ ip[1] = 192 /\ ip[2] = 0 /\ ip[3] = 2
    \/ ip[1] = 198 /\ ip[2] = 51 /\ ip[3] = 100
    \/ ip[1] = 203 /\ ip[2] = 0 /\ ip[3] = 113
is_unspecified(ip) == ip = <<0, 0, 0, 0>>

\* Login::is_priv_ip
is_priv_ip(login) ==
    IF IsSome(login.ip)
    THEN LET ip == Unwrap(login.ip) IN
         \/ is_private(ip)
         \/ is_loopback(ip)
         \/ is_link_local(ip)
         \/ is_multicast(ip)
         \/ is_broadcast(ip)
         \/ is_documentation(ip)
         \/ is_unspecified(ip)
    ELSE FALSE

----------------------------------------------------------------------------
(* The inputs: places, addresses and logs                                  *)

\* The places a log or an ipinfo.io answer can name.  A location is the
\* pair (lat, lon) of its place, which the model writes as the place.
Places == {"Clemson", "Charlotte", "Atlanta", "NewYork", "Beijing"}

PlaceState(p) ==
    CASE p = "Clemson" -> "South Carolina"
      [] p = "Charlotte" -> "North Carolina"
      [] p = "Atlanta" -> "Georgia"
      [] p = "NewYork" -> "New York"
      [] p = "Beijing" -> "Beijing"

PlaceCountry(p) == IF p = "Beijing" THEN "CN" ELSE "US"

IpClemson == <<24, 1, 1, 1>>
IpCharlotte == <<24, 2, 2, 2>>
IpAtlanta == <<24, 3, 3, 3>>
IpNewYork == <<24, 4, 4, 4>>
IpBeijing == <<36, 5, 5, 5>>
IpRelay == <<36, 6, 6, 6>>
IpVpn == <<130, 127, 255, 220>>
IpPrivate == <<10, 0, 0, 7>>

\* IpDB::get_iploc on the address of a log: the place of its range row.
GeoOf(ip) ==
    CASE ip = IpClemson -> Some("Clemson")
      [] ip = IpCharlotte -> Some("Charlotte")
      [] ip = IpAtlanta -> Some("Atlanta")
      [] ip = IpNewYork -> Some("NewYork")
      [] ip = IpBeijing -> Some("Beijing")
      [] ip = IpRelay -> Some("Beijing")
      [] ip = IpVpn -> Some("Clemson")
      [] OTHER -> None

\* The tail of Login::new: a log with the enrichment of its address.
\* time is filled in by Times.
NewLogin(result, integration, reason, ip, gap) ==
    LET geo == IF IsSome(ip) THEN GeoOf(Unwrap(ip)) ELSE None IN
    [time |-> 0,
     gap |-> gap,
     result |-> result,
     integration |-> integration,
     reason |-> reason,
     ip |-> ip,
     country |-> IF IsSome(geo) THEN Some(PlaceCountry(Unwrap(geo))) ELSE None,
     state |-> IF IsSome(geo) THEN Some(PlaceState(Unwrap(geo))) ELSE None,
     city |-> geo,
     location |-> geo,
     is_relay |-> IF IsSome(ip) THEN Unwrap(ip) = IpRelay ELSE FALSE,
     flag_reasons |-> <<>>]

\* The kinds of log an account's history is drawn from.  gap is the number
\* of seconds the log is older than the log before it in the list.
LoginKinds ==
    {NewLogin("Success", "Shibboleth", "None", Some(IpClemson), 1110),
     NewLogin("Failure", "Shibboleth", "None", Some(IpClemson), 1110),
     NewLogin("Failure", "Shibboleth", "None", Some(IpCharlotte), 1110),
     NewLogin("Success", "Shibboleth", "None", Some(IpAtlanta), 3599),
     NewLogin("Failure", "Dmp", "None", Some(IpNewYork), 1110),
     NewLogin("Fraud", "Shibboleth", "None", Some(IpBeijing), 1110),
     NewLogin("Fraud", "Shibboleth", "None", Some(IpClemson), 1110),
     NewLogin("Failure", "Shibboleth", "None", Some(IpVpn), 0),
     NewLogin("Other", "Linux", "None", Some(IpNewYork), 1110),
     NewLogin("Success", "Shibboleth", "None", Some(IpRelay), 1110),
     NewLogin("Failure", "Shibboleth", "None", Some(IpPrivate), 3599),
     NewLogin("Success", "Shibboleth", "None", Some(IpNewYork), 3599),
     NewLogin("Failure", "Shibboleth", "None", Some(IpNewYork), 1110),
     NewLogin("Failure", "Shibboleth", "DenyUnenrolledUser", Some(IpNewYork), 3599),
     NewLogin("Success", "Shibboleth", "None", Some(IpClemson), 80000)}

MaxLogins == 3
BaseTime == 20000000

\* The time of the i-th log of a list whose newest log is gap seconds
\* before BaseTime: the list is in descending time, as Login's Ord sorts it.
RECURSIVE TimeAt(_, _)
TimeAt(kinds, i) ==
    IF i = 0 THEN BaseTime ELSE TimeAt(kinds, i - 1) - kinds[i].gap

Times(kinds) ==
    [i \in 1..Len(kinds) |-> [kinds[i] EXCEPT !.time = TimeAt(kinds, i)]]

Histories == UNION {[1..n -> LoginKinds] : n \in 0..MaxLogins}

----------------------------------------------------------------------------
(* src/user/mod.rs: an account and its first vibe check                    *)

MAX_IMPOSSIBLE_TRAVEL_TIME == 1200

RECURSIVE TakeWhileCount(_, _, _)
TakeWhileCount(logins, i, bound) ==
    IF i > Len(logins) THEN 0
    ELSE IF logins[i].time >= bound
         THEN 1 + TakeWhileCount(logins, i + 1, bound)
         ELSE 0

\* User::new
NewUser(name, logins, earliest) ==
    [name |-> name,
     logins |-> logins,
     checked_login_count |->
         TakeWhileCount(logins, 1, earliest - MAX_IMPOSSIBLE_TRAVEL_TIME * 60),
     reasons |-> <<>>,
     score |-> 0,
     location |-> None,
     creation_date |-> None,
     investigated |-> FALSE]

\* The indices of .iter().take(self.checked_login_count)
CheckedIdx(user) == 1..user.checked_login_count

\* failures with a retry excused by any matching Success, older ones too
failures_any_success(user) ==
    LET retried(i) ==
            \E j \in 1..Len(user.logins) :
                /\ user.logins[j].result = "Success"
                /\ user.logins[j].time - user.logins[i].time <= 30 * 60
                /\ user.logins[i].integration = user.logins[j].integration
                /\ user.logins[i].ip = user.logins[j].ip
    IN Cardinality({i \in CheckedIdx(user) :
                      user.logins[i].result = "Failure" /\ ~retried(i)})

\* User::failures
failures(user) ==
    LET retried(i) ==
            \E j \in 1..(i - 1) :
                /\ user.logins[j].result = "Success"
                /\ user.logins[j].time - user.logins[i].time <= 30 * 60
                /\ user.logins[i].integration = user.logins[j].integration
                /\ user.logins[i].ip = user.logins[j].ip
    IN Cardinality({i \in CheckedIdx(user) :
                      user.logins[i].result = "Failure" /\ ~retried(i)})

\* User::fraud
fraud(user) ==
    Cardinality({i \in CheckedIdx(user) : user.logins[i].result = "Fraud"})

\* User::flag_fraud: the account with its Fraud logs flagged, and their count
flag_fraud(user) ==
    [user |-> [user EXCEPT !.logins =
                  [i \in 1..Len(user.logins) |->
                     IF i \in CheckedIdx(user) /\ user.logins[i].result = "Fraud"
                     THEN [user.logins[i] EXCEPT
                             !.flag_reasons = Append(@, "Fraud")]
                     ELSE user.logins[i]]],
     count |-> Cardinality({i \in CheckedIdx(user) :
                              user.logins[i].result = "Fraud"})]

\* User::flag_dmp
flag_dmp(user) ==
    LET hit(i) == /\ i \in CheckedIdx(user)
                  /\ user.logins[i].integration = "Dmp"
                  /\ user.logins[i].result = "Failure"
    IN [user |-> [user EXCEPT !.logins =
                    [i \in 1..Len(user.logins) |->
                       IF hit(i)
                       THEN [user.logins[i] EXCEPT
                               !.flag_reasons = Append(@, "Dmp")]
                       ELSE user.logins[i]]],
        count |-> Cardinality({i \in 1..Len(user.logins) : hit(i)})]

in_state_counts_vpn(user) ==
    LET states == {Unwrap(user.logins[i].state) :
                     i \in {j \in CheckedIdx(user) : IsSome(user.logins[j].state)}}
    IN \/ states = {"South Carolina"}
       \/ states = {"North Carolina"}
       \/ states = {"South Carolina", "North Carolina"}
       \/ states = {"South Carolina", "Georgia"}

in_state_never(user) == FALSE

\* User::in_state.  states holds each state once, so its length is the
\* number of distinct states.
in_state(user) ==
    LET states == {Unwrap(user.logins[i].state) :
                     i \in {j \in CheckedIdx(user) :
                              /\ ~is_vpn_ip(user.logins[j])
                              /\ IsSome(user.logins[j].state)}}
        sc == "South Carolina"
        nc == "North Carolina"
        ga == "Georgia"
    IN IF Cardinality(states) = 1 /\ (states = {sc} \/ states = {nc})
       THEN TRUE
       ELSE IF Cardinality(states) = 2
            THEN IF sc \in states /\ nc \in states
                 THEN TRUE
                 ELSE sc \in states /\ ga \in states
            ELSE FALSE

\* Vec::dedup: consecutive equal elements collapse to one
RECURSIVE Dedup(_)
Dedup(seq) ==
    IF Len(seq) <= 1 THEN seq
    ELSE IF seq[1] = seq[2]
         THEN Dedup(Tail(seq))
         ELSE <<seq[1]>> \o Dedup(Tail(seq))

RECURSIVE FilterIdx(_, _, _)
\* .filter(): the indices i..n, in order, that are in keep
FilterIdx(i, n, keep) ==
    IF i > n THEN <<>>
    ELSE IF i \in keep
         THEN <<i>> \o FilterIdx(i + 1, n, keep)
         ELSE FilterIdx(i + 1, n, keep)

\* User::impossible_travel_precheck
impossible_travel_precheck(user) ==
    LET keep == {i \in CheckedIdx(user) :
                   /\ ~is_vpn_ip(user.logins[i])
                   /\ IsSome(user.logins[i].state)
                   /\ IsSome(user.logins[i].country)}
        idx == FilterIdx(1, user.checked_login_count, keep)
        states == Dedup([k \in 1..Len(idx) |-> Unwrap(user.logins[idx[k]].state)])
        countries == Dedup([k \in 1..Len(idx) |-> Unwrap(user.logins[idx[k]].country)])
    IN IF Len(countries) > 1 THEN TRUE
       ELSE IF Len(states) < 2 THEN FALSE
       ELSE TRUE

\* User::haversine_distance, in metres, on the locations of Places.  The
\* callers pass (lat, lon) and the function reads .0 as the longitude and
\* .1 as the latitude: these are the f32 values it returns for the pairs
\*   Clemson (34.68344, -82.83737)    Charlotte (35.22709, -80.84313)
\*   Atlanta (33.749, -84.38798)      NewYork (40.71427, -74.00597)
\*   Beijing (39.9075, 116.39723)
\* rounded down to a metre.
haversine_distance(p1, p2) ==
    LET pair == {p1, p2} IN
    CASE p1 = p2 -> 0
      [] pair = {"Clemson", "Charlotte"} -> 221913
      [] pair = {"Clemson", "Atlanta"} -> 172801
      [] pair = {"Clemson", "NewYork"} -> 989867
      [] pair = {"Clemson", "Beijing"} -> 17871872
      [] pair = {"Charlotte", "Atlanta"} -> 394703
      [] pair = {"Charlotte", "NewYork"} -> 770937
      [] pair = {"Charlotte", "Beijing"} -> 18093008
      [] pair = {"Atlanta", "NewYork"} -> 1161437
      [] pair = {"Atlanta", "Beijing"} -> 17699402
      [] pair = {"NewYork", "Beijing"} -> 18857902

\* Duration::num_minutes: whole minutes, truncated toward zero
num_minutes(secs) ==
    IF secs >= 0 THEN secs \div 60 ELSE -((-secs) \div 60)

Abs(x) == IF x >= 0 THEN x ELSE -x

\* Fixed point: a speed is held in 1/16 kph, a logarithm in 1/1024.
SpeedScale == 16
LogScale == 1024
MantissaBits == 14

RECURSIVE Pow2(_)
Pow2(n) == IF n = 0 THEN 1 ELSE 2 * Pow2(n - 1)

RECURSIVE ILog2(_)
\* floor(log2(x)), x >= 1
ILog2(x) == IF x < 2 THEN 0 ELSE 1 + ILog2(x \div 2)

RECURSIVE Log2Frac(_, _)
\* The first bits binary digits of log2(y / 2^14), y in [2^14, 2^15), by
\* repeated squaring
Log2Frac(y, bits) ==
    IF bits = 0 THEN 0
    ELSE LET y2 == (y * y) \div Pow2(MantissaBits) IN
         IF y2 >= Pow2(MantissaBits + 1)
         THEN Pow2(bits - 1) + Log2Frac(y2 \div 2, bits - 1)
         ELSE Log2Frac(y2, bits - 1)

\* f32::log2 of a speed of at least 1 kph, in 1/1024
Log2Fx(speed16) ==
    LET e == ILog2(speed16)
        y == IF e >= MantissaBits
             THEN speed16 \div Pow2(e - MantissaBits)
             ELSE speed16 * Pow2(MantissaBits - e)
    IN (e - 4) * LogScale + Log2Frac(y, 10)

\* kph = distance / (minutes / 60), in 1/16 kph; minutes > 0
Kph16(metres, minutes) == (metres * 48) \div (50 * minutes)

\* kph >= 1000_f32; a division by zero minutes gives +inf
KphAtLeast1000(metres, minutes) ==
    IF minutes = 0 THEN TRUE ELSE metres * 3 >= 50000 * minutes

travel_points_cap_10(metres, minutes) ==
    IF minutes = 0 THEN 10 * LogScale
    ELSE LET l == Log2Fx(Kph16(metres, minutes)) IN
         IF l < 10 * LogScale THEN l ELSE 10 * LogScale

\* kph.log2().min(15_f32), in 1/1024
travel_points(metres, minutes) ==
    IF minutes = 0 THEN 15 * LogScale
    ELSE LET l == Log2Fx(Kph16(metres, minutes)) IN
         IF l < 15 * LogScale THEN l ELSE 15 * LogScale

\* The filter of User::impossible_travel
travel_eligible(login) ==
    /\ IsSome(login.location)
    /\ ~is_vpn_ip(login)
    /\ ~is_priv_ip(login)
    /\ ~login.is_relay
    /\ login.integration # "Linux"

RECURSIVE TravelLoop(_, _, _, _)
\* for i in 0..logins.len() - 1 of User::impossible_travel: idx are the
\* positions of the filtered logs, k the pair at hand
TravelLoop(idx, k, logins, acc) ==
    IF k > Len(idx) - 1
    THEN [logins |-> logins, travel |-> acc]
    ELSE LET prev == logins[idx[k]]
             next == logins[idx[k + 1]]
             distance == haversine_distance(Unwrap(prev.location),
                                            Unwrap(next.location))
             minutes == Abs(num_minutes(next.time - prev.time))
         IN IF distance < 250 * 1000
            THEN TravelLoop(idx, k + 1, logins, acc)
            ELSE IF KphAtLeast1000(distance, minutes)
                 THEN TravelLoop(idx, k + 1,
                        [logins EXCEPT
                           ![idx[k]].flag_reasons = Append(@, "Travel"),
                           ![idx[k + 1]].flag_reasons = Append(@, "Travel")],
                        acc + travel_points(distance, minutes))
                 ELSE TravelLoop(idx, k + 1, logins, acc)

\* User::impossible_travel: the account with its logs flagged, the f32
\* accumulator (in 1/1024) and the usize returned, travel as usize
impossible_travel(user) ==
    LET keep == {i \in CheckedIdx(user) : travel_eligible(user.logins[i])}
        idx == FilterIdx(1, user.checked_login_count, keep)
    IN IF Len(idx) < 2
       THEN [user |-> user, acc |-> 0, travel |-> 0]
       ELSE LET r == TravelLoop(idx, 1, user.logins, 0) IN
            [user |-> [user EXCEPT !.logins = r.logins],
             acc |-> r.travel,
             travel |-> r.travel \div LogScale]

reset_never(user) == user

\* User::first_vibe_check, "Reset on subsequent run"
reset_on_subsequent_run(user) ==
    IF user.score # 0
    THEN [user EXCEPT
            !.score = 0,
            !.reasons = <<>>,
            !.logins = [i \in 1..Len(user.logins) |->
                          [user.logins[i] EXCEPT !.flag_reasons = <<>>]]]
    ELSE user

final_score_fraud_2(score, nfailures, nfraud, ndmp) ==
    score + nfailures + nfraud * 2 + ndmp * 2

\* User::first_vibe_check, the closing sum.  usize does not saturate at
\* the sizes of the model.
final_score(score, nfailures, nfraud, ndmp) ==
    score + nfailures + nfraud * 20 + ndmp * 2

\* User::first_vibe_check, the return: u5 is the account with its score
vibe_return(acc, u5) ==
    [user |-> u5, ret |-> u5.reasons = <<>>, exit |-> "scored", acc |-> acc]

\* ... from the flags of Dmp on: fd is what flag_dmp answers, acc the
\* travel accumulator
vibe_dmp(nfailures, nfraud, acc, fd) ==
    vibe_return(acc,
        [(IF fd.count > 0
          THEN [fd.user EXCEPT !.reasons = Append(@, "Dmp")]
          ELSE fd.user)
            EXCEPT !.score = final_score(@, nfailures, nfraud, fd.count)])

\* ... from the travel on: it is what the travel check answers
vibe_travel(nfailures, nfraud, it) ==
    vibe_dmp(nfailures, nfraud, it.acc,
             flag_dmp(IF it.travel > 0
                      THEN [it.user EXCEPT !.score = @ + it.travel,
                                           !.reasons = Append(@, "Travel")]
                      ELSE it.user))

\* ... from the travel precheck on: u2 is the account with its Failure and
\* Fraud reasons
vibe_precheck(nfailures, nfraud, u2) ==
    vibe_travel(nfailures, nfraud,
                IF impossible_travel_precheck(u2) THEN impossible_travel(u2)
                ELSE [user |-> u2, acc |-> 0, travel |-> 0])

\* ... from the Fraud reason on: ff is what flag_fraud answers
vibe_fraud(nfailures, ff) ==
    vibe_precheck(nfailures, ff.count,
                  IF ff.count > 0
                  THEN [ff.user EXCEPT !.reasons = Append(@, "Fraud")]
                  ELSE ff.user)

\* ... from the Failure reason on: nfailures is what failures() answers
vibe_failures(u0, nfailures) ==
    vibe_fraud(nfailures,
               flag_fraud(IF nfailures > 0
                          THEN [u0 EXCEPT !.reasons = Append(@, "Failure")]
                          ELSE u0))

\* ... from the two exits on: u0 is the account after the reset
vibe_exits(u0) ==
    IF ~\E i \in CheckedIdx(u0) : u0.logins[i].result # "Success"
    THEN [user |-> u0, ret |-> TRUE, exit |-> "perfect", acc |-> 0]
    ELSE IF in_state(u0)
    THEN [user |-> u0, ret |-> TRUE, exit |-> "in_state", acc |-> 0]
    ELSE vibe_failures(u0, failures(u0))

\* User::first_vibe_check: the account after the call, the value returned,
\* how the call ended and the travel accumulator of the call
first_vibe_check(user) ==
    IF user.checked_login_count = 0 \/ Len(user.logins) = 0
    THEN [user |-> user, ret |-> TRUE, exit |-> "empty", acc |-> 0]
    ELSE vibe_exits(reset_on_subsequent_run(user))

----------------------------------------------------------------------------
(* src/user/mod.rs: the second vibe check, closer_to and the ranking       *)

STATE_ABBREVIATIONS ==
    {<<"Alabama", "AL">>, <<"Alaska", "AK">>, <<"Arizona", "AZ">>,
     <<"Arkansas", "AR">>, <<"California", "CA">>, <<"Colorado", "CO">>,
     <<"Connecticut", "CT">>, <<"Delaware", "DE">>, <<"Florida", "FL">>,
     <<"Georgia", "GA">>, <<"Hawaii", "HI">>, <<"Idaho", "ID">>,
     <<"Illinois", "IL">>, <<"Indiana", "IN">>, <<"Iowa", "IA">>,
     <<"Kansas", "KS">>, <<"Kentucky", "KY">>, <<"Louisiana", "LA">>,
     <<"Maine", "ME">>, <<"Maryland", "MD">>, <<"Massachusetts", "MA">>,
     <<"Michigan", "MI">>, <<"Minnesota", "MN">>, <<"Mississippi", "MS">>,
     <<"Missouri", "MO">>, <<"Montana", "MT">>, <<"Nebraska", "NE">>,
     <<"Nevada", "NV">>, <<"New Hampshire", "NH">>, <<"New Jersey", "NJ">>,
     <<"New Mexico", "NM">>, <<"New York", "NY">>, <<"North Carolina", "NC">>,
     <<"North Dakota", "ND">>, <<"Ohio", "OH">>, <<"Oklahoma", "OK">>,
     <<"Oregon", "OR">>, <<"Pennsylvania", "PA">>, <<"Rhode Island", "RI">>,
     <<"South Carolina", "SC">>, <<"South Dakota", "SD">>, <<"Tennessee", "TN">>,
     <<"Texas", "TX">>, <<"Utah", "UT">>, <<"Vermont", "VT">>,
     <<"Virginia", "VA">>, <<"Washington", "WA">>, <<"West Virginia", "WV">>,
     <<"Wisconsin", "WI">>, <<"Wyoming", "WY">>}

\* User::same_state
same_state(user, login_state) ==
    IF IsSome(user.location)
    THEN IF IsSome(Unwrap(user.location).state)
         THEN LET user_state == Unwrap(Unwrap(user.location).state) IN
              IF user_state = login_state
              THEN TRUE
              ELSE \E e \in STATE_ABBREVIATIONS :
                      user_state = e[2] /\ login_state = e[1]
         ELSE FALSE
    ELSE FALSE

\* chrono::Duration::days(6 * 30), in seconds
SixMonths == 6 * 30 * 86400

\* second_vibe_check without the test of the fraud count
second_vibe_check_fraud_ignored(user) ==
    IF user.location = None \/ user.creation_date = None
    THEN FALSE
    ELSE
    LET creation_date == Unwrap(user.creation_date)
        latest_log == user.logins[1]
    IN IF /\ latest_log.time - SixMonths < creation_date
          /\ \E i \in CheckedIdx(user) :
                user.logins[i].reason = "DenyUnenrolledUser"
       THEN TRUE
       ELSE \A i \in CheckedIdx(user) :
               (~is_vpn_ip(user.logins[i]) /\ IsSome(user.logins[i].state))
                  => same_state(user, Unwrap(user.logins[i].state))

\* User::second_vibe_check
second_vibe_check(user) ==
    IF user.location = None \/ user.creation_date = None \/ fraud(user) # 0
    THEN FALSE
    ELSE
    LET creation_date == Unwrap(user.creation_date)
        latest_log == user.logins[1]
    IN IF /\ latest_log.time - SixMonths < creation_date
          /\ \E i \in CheckedIdx(user) :
                user.logins[i].reason = "DenyUnenrolledUser"
       THEN TRUE
       ELSE IF \A i \in CheckedIdx(user) :
                  (~is_vpn_ip(user.logins[i]) /\ IsSome(user.logins[i].state))
                     => same_state(user, Unwrap(user.logins[i].state))
            THEN TRUE
            ELSE FALSE

\* User::closer_to; i counts from 1
closer_to(user, ip, i) ==
    IF IsSome(user.logins[i].location)
    THEN LET log_loc == Unwrap(user.logins[i].location)
             nearer ==
                 IF i # 1
                 THEN IF IsSome(user.logins[i - 1].location)
                      THEN LET prev_loc == Unwrap(user.logins[i - 1].location)
                               ip_loc == ip.loc
                               cur_dist == haversine_distance(prev_loc, log_loc)
                               new_dist == haversine_distance(prev_loc, ip_loc)
                           IN new_dist < cur_dist
                      ELSE FALSE
                 ELSE FALSE
         IN IF nearer
            THEN TRUE
            ELSE IF IsSome(user.location)
                 THEN Unwrap(user.location).city = ip.city
                      \/ same_state(user, ip.region)
                 ELSE FALSE
    ELSE FALSE

\* impl PartialOrd for User
partial_cmp(a, b) ==
    IF fraud(b) < fraud(a) THEN "Less"
    ELSE IF fraud(b) = fraud(a)
         THEN IF b.score < a.score THEN "Less"
              ELSE IF b.score = a.score THEN "Equal" ELSE "Greater"
         ELSE "Greater"

\* impl Ord for User
cmp(a, b) ==
    IF b.score < a.score THEN "Less"
    ELSE IF b.score = a.score THEN "Equal" ELSE "Greater"

lt_by_cmp(a, b) == cmp(a, b) = "Less"

\* PartialOrd::lt, the provided method: partial_cmp(self, other) is
\* Some(Less)
lt(a, b) == partial_cmp(a, b) = "Less"

RECURSIVE InsertSorted(_, _)
\* x placed after every element it is not less than
InsertSorted(sorted, x) ==
    IF sorted = <<>> THEN <<x>>
    ELSE IF lt(x, sorted[1])
         THEN <<x>> \o sorted
         ELSE <<sorted[1]>> \o InsertSorted(Tail(sorted), x)

RECURSIVE SortFrom(_, _, _)
SortFrom(v, i, sorted) ==
    IF i > Len(v) THEN sorted
    ELSE SortFrom(v, i + 1, InsertSorted(sorted, v[i]))

\* users.sort(): the stable sort of the slice, which orders by T::lt
sort(v) == SortFrom(v, 1, <<>>)

----------------------------------------------------------------------------
(* src/storage.rs: the hdtools and ipinfo tables                           *)

\* The offset of chrono::Local from UTC, in seconds (US Eastern)
UtcOffset == 0 - 5 * 3600

\* NaiveDateTime::timestamp: the naive time read as UTC
timestamp(naive) == naive
\* Local.timestamp_opt(t, 0).single()?.naive_local()
naive_local(t) == t + UtcOffset

\* Storage::add_hdtools: INSERT INTO hdtools; name is UNIQUE
add_hdtools(tbl, name, info) ==
    LET loc == IF IsSome(info.location) THEN Unwrap(info.location)
               ELSE [city |-> "", state |-> None, country |-> None]
        row == [time |-> timestamp(info.date),
                city |-> loc.city,
                state |-> IF IsSome(loc.state) THEN Unwrap(loc.state) ELSE "",
                country |-> IF IsSome(loc.country) THEN Unwrap(loc.country) ELSE ""]
    IN IF name \in DOMAIN tbl THEN tbl
       ELSE [n \in DOMAIN tbl \cup {name} |-> IF n = name THEN row ELSE tbl[n]]

\* Storage::get_hdtools
get_hdtools(tbl, name) ==
    IF name \in DOMAIN tbl
    THEN LET row == tbl[name]
             check_empty(x) == IF x = "" THEN None ELSE Some(x)
         IN Some([date |-> naive_local(row.time),
                  location |-> Some([city |-> row.city,
                                     state |-> check_empty(row.state),
                                     country |-> check_empty(row.country)])])
    ELSE None

\* Storage::add_ipinfo: INSERT INTO ipinfo; ip is UNIQUE
add_ipinfo(tbl, ip, info) ==
    LET row == [city |-> info.city, region |-> info.region,
                country |-> info.country, lat_lon |-> info.loc]
    IN IF ip \in DOMAIN tbl THEN tbl
       ELSE [a \in DOMAIN tbl \cup {ip} |-> IF a = ip THEN row ELSE tbl[a]]

\* Storage::get_ipinfo
get_ipinfo(tbl, ip) ==
    IF ip \in DOMAIN tbl
    THEN Some([city |-> tbl[ip].city, region |-> tbl[ip].region,
               country |-> tbl[ip].country, loc |-> tbl[ip].lat_lon])
    ELSE None

\* `as u32` of a bool
AsU32(b) == IF b THEN 1 ELSE 0

\* The nine bool fields of IpThreat, which are the nine columns of ipthreat
\* after ip
ThreatFlags ==
    {"is_tor", "is_icloud_relay", "is_proxy", "is_datacenter", "is_anonymous",
     "is_known_attacker", "is_known_abuser", "is_threat", "is_bogon"}

\* An IpThreat with the flags of the set on and the others off
IpThreat(on, blocklists) ==
    [f \in ThreatFlags \cup {"blocklists"} |->
        IF f = "blocklists" THEN blocklists ELSE f \in on]

\* Storage::add_threat: INSERT INTO ipthreat; ip is UNIQUE, the blocklists
\* are not stored
add_threat(tbl, ip, info) ==
    LET row == [f \in ThreatFlags |-> AsU32(info[f])]
    IN IF ip \in DOMAIN tbl THEN tbl
       ELSE [a \in DOMAIN tbl \cup {ip} |-> IF a = ip THEN row ELSE tbl[a]]

\* Storage::get_threat: each flag is column == 1, blocklists is vec![]
get_threat(tbl, ip) ==
    IF ip \in DOMAIN tbl
    THEN Some([f \in ThreatFlags \cup {"blocklists"} |->
                  IF f = "blocklists" THEN <<>> ELSE tbl[ip][f] = 1])
    ELSE None

\* IpThreat::vibe_check
vibe_check(t) ==
    ~(\/ t.is_tor
      \/ t.is_icloud_relay
      \/ t.is_proxy
      \/ t.is_datacenter
      \/ t.is_anonymous
      \/ t.is_known_attacker
      \/ t.is_known_abuser
      \/ t.is_threat
      \/ t.is_bogon
      \/ t.blocklists # <<>>)

----------------------------------------------------------------------------
(* What the services outside answer                                        *)

\* IPQuery::get_threat: nothing, or what ipdata.co says of the address
ThreatAnswers ==
    {None,
     Some(IpThreat({}, <<>>)),
     Some(IpThreat({"is_tor", "is_threat"}, <<"firehol">>))}

LocCharlotte == [city |-> "Charlotte", state |-> Some("NC"), country |-> Some("US")]
RecentDate == BaseTime - 1000000
OldDate == BaseTime - 19000000

\* HDTools::get_info: nothing, or a creation date and maybe a location
HdAnswers ==
    {None,
     Some([date |-> RecentDate, location |-> Some(LocCharlotte)]),
     Some([date |-> OldDate, location |-> Some(LocCharlotte)]),
     Some([date |-> OldDate, location |-> None])}

\* What ipinfo.io holds for an address: the New York address is placed in
\* Charlotte, every other address where the static table places it.
IpInfoOf(ip) ==
    LET place == IF ip = IpNewYork THEN "Charlotte"
                 ELSE IF IsSome(GeoOf(ip)) THEN Unwrap(GeoOf(ip)) ELSE "Clemson"
    IN [city |-> place, region |-> PlaceState(place),
        country |-> PlaceCountry(place), loc |-> place]

----------------------------------------------------------------------------
(* The variables, by component                                             *)

storageVars == <<now, ticks, investigated_users, misc, markedAt,
                 unmarkedSince, lastSet, marks>>
vibeVars == <<account, ret, ended, travel, runs>>
duplexVars == <<population, hdtools_on, pc, users, next_idx, kept, returned,
                progress, lock, hdtools, ipinfo, events, checks>>
unitVars == <<input, output>>
accessVars == <<ipthreat, failed_ips, lookups, calls, caller>>
lockVars == <<simplex>>
restVars == <<unitVars, accessVars, lockVars>>
vars == <<storageVars, vibeVars, duplexVars, restVars>>

\* Storage::load on a machine without duplex.db: the five tables are empty.
StorageInit ==
    /\ now = 0
    /\ ticks = 0
    /\ investigated_users = <<>>
    /\ misc = <<>>
    /\ hdtools = <<>>
    /\ ipinfo = <<>>
    /\ markedAt = <<>>
    /\ unmarkedSince = {}
    /\ lastSet = <<>>
    /\ marks = 0

VibeIdle ==
    /\ account = NewUser("alice", <<>>, BaseTime)
    /\ ret = None
    /\ ended = "not run"
    /\ travel = 0
    /\ runs = 0

NoChecks == [n \in Names |-> [inv1 |-> None, ign1 |-> None, inv3 |-> None, ign3 |-> None]]

\* Store::new; no run_duplex has been started
DuplexIdle ==
    /\ pc = "idle"
    /\ users = <<>>
    /\ next_idx = 1
    /\ kept = <<>>
    /\ returned = <<>>
    /\ progress = [num |-> 0, den |-> 1]
    /\ lock = "free"
    /\ events = <<>>
    /\ checks = NoChecks

NoPopulation ==
    /\ population = [n \in Names |-> <<>>]
    /\ hdtools_on = FALSE

\* no function is being looked at on its own
UnitIdle ==
    /\ input = None
    /\ output = None

\* Store::new on an empty cache: no address has been looked up
AccessIdle ==
    /\ ipthreat = <<>>
    /\ failed_ips = <<>>
    /\ lookups = <<>>
    /\ calls = 0
    /\ caller = [at |-> "idle", ip |-> IpNewYork, ret |-> None]

\* no run_simplex has been started
LockIdle == simplex = "idle"

RestIdle == UnitIdle /\ AccessIdle /\ LockIdle

----------------------------------------------------------------------------
(* The cache on its own: the clock and the calls of its public interface   *)

MaxMarks == 2

\* The clock advances; a run that has returned is not followed further.
Tick ==
    \E d \in TickSteps :
        /\ ticks < MaxTicks
        /\ pc # "done"
        /\ now' = now + d
        /\ ticks' = ticks + 1
        /\ UNCHANGED <<investigated_users, misc, markedAt, unmarkedSince,
                       lastSet, marks>>
        /\ UNCHANGED <<vibeVars, duplexVars, restVars>>

\* Store::mark_investigated: lock the storage, Storage::mark_investigated
MarkInvestigated ==
    \E name \in Names, mark \in BOOLEAN :
        /\ marks < MaxMarks
        /\ lock = "free"
        /\ pc # "done"
        /\ investigated_users' = mark_investigated(investigated_users, now, name, mark)
        /\ IF mark
           THEN /\ markedAt' = [n \in DOMAIN markedAt \cup {name} |->
                                  IF n = name THEN now ELSE markedAt[n]]
                /\ unmarkedSince' = unmarkedSince \ {name}
           ELSE /\ markedAt' = markedAt
                /\ unmarkedSince' = unmarkedSince \cup {name}
        /\ marks' = marks + 1
        /\ UNCHANGED <<now, ticks, misc, lastSet>>
        /\ UNCHANGED <<vibeVars, duplexVars, restVars>>

SetUsername ==
    \E value \in Values :
        /\ misc' = set_username(misc, value)
        /\ lastSet' = [k \in DOMAIN lastSet \cup {UserName} |->
                         IF k = UserName THEN value ELSE lastSet[k]]
        /\ UNCHANGED <<now, ticks, investigated_users, markedAt,
                       unmarkedSince, marks>>
        /\ UNCHANGED <<vibeVars, duplexVars, restVars>>

SetAnalystName ==
    \E value \in Values :
        /\ misc' = set_analyst_name(misc, value)
        /\ lastSet' = [k \in DOMAIN lastSet \cup {AnalystName} |->
                         IF k = AnalystName THEN value ELSE lastSet[k]]
        /\ UNCHANGED <<now, ticks, investigated_users, markedAt,
                       unmarkedSince, marks>>
        /\ UNCHANGED <<vibeVars, duplexVars, restVars>>

StorageNext == Tick \/ MarkInvestigated \/ SetUsername \/ SetAnalystName

StorageOnlyInit ==
    StorageInit /\ VibeIdle /\ DuplexIdle /\ NoPopulation /\ RestIdle

StorageSpec == StorageOnlyInit /\ [][StorageNext]_vars

----------------------------------------------------------------------------
(* The first vibe check on its own: one account, checked again and again   *)

MaxRuns == 2

VibeInit ==
    /\ \E h \in Histories : account = NewUser("alice", Times(h), BaseTime)
    /\ ret = None
    /\ ended = "not run"
    /\ travel = 0
    /\ runs = 0

FirstVibeCheck ==
    /\ runs < MaxRuns
    /\ LET r == first_vibe_check(account) IN
        /\ account' = r.user
        /\ ret' = Some(r.ret)
        /\ ended' = r.exit
        /\ travel' = r.acc
    /\ runs' = runs + 1
    /\ UNCHANGED <<storageVars, duplexVars, restVars>>

VibeNext == FirstVibeCheck

VibeOnlyInit ==
    StorageInit /\ VibeInit /\ DuplexIdle /\ NoPopulation /\ RestIdle

VibeSpec == VibeOnlyInit /\ [][VibeNext]_vars

----------------------------------------------------------------------------
(* src/store.rs: Store::run_duplex, the three passes and the ranking       *)

Fraud1 == NewLogin("Fraud", "Shibboleth", "None", Some(IpBeijing), 1110)
Success1 == NewLogin("Success", "Shibboleth", "None", Some(IpClemson), 1110)
HomeFailure1 == NewLogin("Failure", "Shibboleth", "None", Some(IpCharlotte), 1110)
DmpFailure1 == NewLogin("Failure", "Dmp", "None", Some(IpNewYork), 1110)
AwayFailure1 == NewLogin("Failure", "Shibboleth", "None", Some(IpNewYork), 1110)
Unenrolled1 == NewLogin("Failure", "Shibboleth", "DenyUnenrolledUser", Some(IpNewYork), 3599)

\* The logs Splunk can hold for one account
FraudOnly == <<Fraud1>>
SuccessThenFraud == <<Success1, Fraud1>>
HomeOnly == <<Success1, HomeFailure1>>
BackAndForth == <<DmpFailure1, Success1, AwayFailure1>>
UnenrolledAway == <<Unenrolled1>>

Pop(a, b) == [n \in Names |-> IF n = "alice" THEN a ELSE b]

\* What Splunk holds for the two accounts
Populations ==
    {Pop(FraudOnly, BackAndForth),
     Pop(SuccessThenFraud, FraudOnly),
     Pop(HomeOnly, UnenrolledAway),
     Pop(UnenrolledAway, BackAndForth),
     Pop(<<>>, FraudOnly)}

\* Splunk::match_users_and_logins: one User per name, in the order the
\* HashMap yields them
Orders == {<<"alice", "bob">>, <<"bob", "alice">>}
match_users_and_logins(pop, order, earliest) ==
    [i \in 1..Len(order) |-> NewUser(order[i], Times(pop[order[i]]), earliest)]

DuplexInit ==
    /\ population \in Populations
    /\ hdtools_on \in BOOLEAN
    /\ DuplexIdle

\* the closure of the first filter_map
first_filter(user, tbl, clock) ==
    LET r == first_vibe_check(user) IN
    IF ~r.ret /\ ~investigated(tbl, clock, user.name)
    THEN Some(r.user) ELSE None

\* the closure of the second filter_map, for what get_info answers when
\* the cache has no row: the account or None, and the table
second_filter(user, tbl, answer) ==
    LET cached == get_hdtools(tbl, user.name)
        got == IF IsSome(cached) THEN cached ELSE answer
        u1 == IF IsSome(got)
              THEN [user EXCEPT !.location = Unwrap(got).location,
                                !.creation_date = Some(Unwrap(got).date)]
              ELSE user
        tbl1 == IF ~IsSome(cached) /\ IsSome(answer)
                THEN add_hdtools(tbl, user.name, Unwrap(answer))
                ELSE tbl
    IN [item |-> IF ~second_vibe_check(u1) THEN Some(u1) ELSE None,
        tbl |-> tbl1]

\* for i in 0..user.checked_login_count, from the i-th log on; up is the
\* set of logs for which IPQuery::get_info answers
RECURSIVE third_loop(_, _, _, _, _)
third_loop(user, tbl, i, up, asked) ==
    IF i > user.checked_login_count
    THEN [user |-> user, tbl |-> tbl, asked |-> asked]
    ELSE
    LET login == user.logins[i] IN
    IF is_priv_ip(login) \/ is_vpn_ip(login) \/ ~IsSome(login.ip)
    THEN third_loop(user, tbl, i + 1, up, asked)
    ELSE
    LET ip == Unwrap(login.ip)
        cached == get_ipinfo(tbl, ip)
        answer == IF i \in up THEN Some(IpInfoOf(ip)) ELSE None
        got == IF IsSome(cached) THEN cached ELSE answer
        tbl1 == IF ~IsSome(cached) /\ IsSome(answer)
                THEN add_ipinfo(tbl, ip, Unwrap(answer)) ELSE tbl
        asked1 == IF IsSome(cached) THEN asked
                  ELSE Append(asked, [fact |-> "info", ip |-> ip,
                                      ok |-> IsSome(answer)])
        u1 == IF IsSome(got) /\ closer_to(user, Unwrap(got), i)
              THEN [user EXCEPT
                      !.logins[i].location = Some(Unwrap(got).loc),
                      !.logins[i].country = Some(Unwrap(got).country),
                      !.logins[i].state = Some(Unwrap(got).region),
                      !.logins[i].city = Some(Unwrap(got).city)]
              ELSE user
    IN third_loop(u1, tbl1, i + 1, up, asked1)

third_filter_recounts(user, ip_tbl, inv_tbl, clock, up) ==
    LET looped == third_loop(user, ip_tbl, 1, up, <<>>)
        r == first_vibe_check([looped.user EXCEPT
                                 !.checked_login_count = Len(user.logins)])
    IN [item |-> IF ~r.ret /\ ~investigated(inv_tbl, clock, user.name)
                 THEN Some(r.user) ELSE None,
        tbl |-> looped.tbl,
        asked |-> looped.asked]

\* the closure of the third filter_map
third_filter(user, ip_tbl, inv_tbl, clock, up) ==
    LET looped == third_loop(user, ip_tbl, 1, up, <<>>)
        r == first_vibe_check(looped.user)
    IN [item |-> IF ~r.ret /\ ~investigated(inv_tbl, clock, user.name)
                 THEN Some(r.user) ELSE None,
        tbl |-> looped.tbl,
        asked |-> looped.asked]

\* the analyst's view at a check: name was ignored less than 24 h ago and
\* not un-ignored since
Ignored(name) ==
    /\ name \in DOMAIN markedAt
    /\ name \notin unmarkedSince
    /\ now < markedAt[name] + 86400

duplexRest == <<population, hdtools_on>>
storageRest == <<now, ticks, investigated_users, misc, markedAt,
                 unmarkedSince, lastSet, marks>>

\* set the progress to 0, spawn the thread, fetch and match, and take the
\* lock for the first pass
StartRun ==
    \E order \in Orders :
        /\ pc = "idle"
        /\ lock = "free"
        /\ progress' = [num |-> 0, den |-> 1]
        /\ users' = match_users_and_logins(population, order, BaseTime)
        /\ next_idx' = 1
        /\ kept' = <<>>
        /\ lock' = "run_duplex"
        /\ pc' = "pass1"
        /\ UNCHANGED <<returned, hdtools, ipinfo, events, checks>>
        /\ UNCHANGED <<storageRest, vibeVars, duplexRest, restVars>>

\* get_duo_users or get_logins answers Err: return vec![]
FetchFails ==
    /\ pc = "idle"
    /\ progress' = [num |-> 0, den |-> 1]
    /\ returned' = <<>>
    /\ pc' = "done"
    /\ UNCHANGED <<users, next_idx, kept, lock, hdtools, ipinfo, events, checks>>
    /\ UNCHANGED <<storageRest, vibeVars, duplexRest, restVars>>

\* what one step of the first filter_map leaves behind
Pass1Step(user, item) ==
    /\ kept' = IF IsSome(item) THEN Append(kept, Unwrap(item)) ELSE kept
    /\ events' = Append(events, [pass |-> 1, name |-> user.name,
                                 kept |-> IsSome(item)])
    /\ checks' = [checks EXCEPT ![user.name].inv1 =
                      Some(investigated(investigated_users, now, user.name)),
                                ![user.name].ign1 = Some(Ignored(user.name))]

Pass1User ==
    /\ pc = "pass1"
    /\ next_idx <= Len(users)
    /\ Pass1Step(users[next_idx],
                 first_filter(users[next_idx], investigated_users, now))
    /\ next_idx' = next_idx + 1
    /\ UNCHANGED <<pc, users, returned, progress, lock, hdtools, ipinfo>>
    /\ UNCHANGED <<storageRest, vibeVars, duplexRest, restVars>>

EndPass1_forgets_filter ==
    /\ pc = "pass1"
    /\ next_idx > Len(users)
    /\ users' = users
    /\ kept' = <<>>
    /\ next_idx' = 1
    /\ lock' = "free"
    /\ pc' = "second"
    /\ UNCHANGED <<returned, progress, hdtools, ipinfo, events, checks>>
    /\ UNCHANGED <<storageRest, vibeVars, duplexRest, restVars>>
\* users = ... .collect(), and the guard of the lock is dropped
EndPass1 ==
    /\ pc = "pass1"
    /\ next_idx > Len(users)
    /\ users' = kept
    /\ kept' = <<>>
    /\ next_idx' = 1
    /\ lock' = "free"
    /\ pc' = "second"
    /\ UNCHANGED <<returned, progress, hdtools, ipinfo, events, checks>>
    /\ UNCHANGED <<storageRest, vibeVars, duplexRest, restVars>>

\* if let Some(hdtools) = hdtools.as_ref(): take the lock
BeginPass2 ==
    /\ pc = "second"
    /\ hdtools_on
    /\ lock = "free"
    /\ lock' = "run_duplex"
    /\ pc' = "pass2"
    /\ UNCHANGED <<users, next_idx, kept, returned, progress, hdtools, ipinfo,
                   events, checks>>
    /\ UNCHANGED <<storageRest, vibeVars, duplexRest, restVars>>

\* queries.hdtools is None: the second pass is not run
SkipPass2 ==
    /\ pc = "second"
    /\ ~hdtools_on
    /\ pc' = "third"
    /\ UNCHANGED <<users, next_idx, kept, returned, progress, lock, hdtools,
                   ipinfo, events, checks>>
    /\ UNCHANGED <<storageRest, vibeVars, duplexRest, restVars>>

\* what one step of the second filter_map leaves behind
Pass2Step(user, out) ==
    /\ progress' = [num |-> next_idx, den |-> Len(users) * 2]
    /\ hdtools' = out.tbl
    /\ kept' = IF IsSome(out.item) THEN Append(kept, Unwrap(out.item))
               ELSE kept
    /\ events' = Append(events, [pass |-> 2, name |-> user.name,
                                 kept |-> IsSome(out.item)])

Pass2User ==
    /\ pc = "pass2"
    /\ next_idx <= Len(users)
    /\ \E answer \in (IF IsSome(get_hdtools(hdtools, users[next_idx].name))
                      THEN {None} ELSE HdAnswers) :
          Pass2Step(users[next_idx],
                    second_filter(users[next_idx], hdtools, answer))
    /\ next_idx' = next_idx + 1
    /\ UNCHANGED <<pc, users, returned, lock, ipinfo, checks>>
    /\ UNCHANGED <<storageRest, vibeVars, duplexRest, restVars>>

EndPass2 ==
    /\ pc = "pass2"
    /\ next_idx > Len(users)
    /\ users' = kept
    /\ kept' = <<>>
    /\ next_idx' = 1
    /\ lock' = "free"
    /\ pc' = "third"
    /\ UNCHANGED <<returned, progress, hdtools, ipinfo, events, checks>>
    /\ UNCHANGED <<storageRest, vibeVars, duplexRest, restVars>>

\* if let Ok(storage) = storage.lock()
BeginPass3 ==
    /\ pc = "third"
    /\ lock = "free"
    /\ lock' = "run_duplex"
    /\ pc' = "pass3"
    /\ UNCHANGED <<users, next_idx, kept, returned, progress, hdtools, ipinfo,
                   events, checks>>
    /\ UNCHANGED <<storageRest, vibeVars, duplexRest, restVars>>

\* what one step of the third filter_map leaves behind
Pass3Step(user, out) ==
    /\ progress' = [num |-> next_idx + (Len(users) \div 2),
                    den |-> Len(users)]
    /\ ipinfo' = out.tbl
    /\ lookups' = lookups \o out.asked
    /\ kept' = IF IsSome(out.item) THEN Append(kept, Unwrap(out.item))
               ELSE kept
    /\ events' = Append(events, [pass |-> 3, name |-> user.name,
                                 kept |-> IsSome(out.item)])
    /\ checks' = [checks EXCEPT ![user.name].inv3 =
                      Some(investigated(investigated_users, now, user.name)),
                                ![user.name].ign3 = Some(Ignored(user.name))]

Pass3User ==
    /\ pc = "pass3"
    /\ next_idx <= Len(users)
    /\ \E up \in {{}, CheckedIdx(users[next_idx])} :
          Pass3Step(users[next_idx],
                    third_filter(users[next_idx], ipinfo, investigated_users,
                                 now, up))
    /\ next_idx' = next_idx + 1
    /\ UNCHANGED <<pc, users, returned, lock, hdtools>>
    /\ UNCHANGED <<storageRest, vibeVars, duplexRest, unitVars, lockVars>>
    /\ UNCHANGED <<ipthreat, failed_ips, calls, caller>>

\* collect, drop the guard of the lock, users.sort(), return users
Finish ==
    /\ pc = "pass3"
    /\ next_idx > Len(users)
    /\ users' = <<>>
    /\ kept' = <<>>
    /\ next_idx' = 1
    /\ lock' = "free"
    /\ returned' = sort(kept)
    /\ pc' = "done"
    /\ UNCHANGED <<progress, hdtools, ipinfo, events, checks>>
    /\ UNCHANGED <<storageRest, vibeVars, duplexRest, restVars>>

DuplexNext ==
    \/ Tick
    \/ MarkInvestigated
    \/ StartRun
    \/ FetchFails
    \/ Pass1User
    \/ EndPass1
    \/ BeginPass2
    \/ SkipPass2
    \/ Pass2User
    \/ EndPass2
    \/ BeginPass3
    \/ Pass3User
    \/ Finish

DuplexRunInit == StorageInit /\ VibeIdle /\ DuplexInit /\ RestIdle

DuplexSpec == DuplexRunInit /\ [][DuplexNext]_vars

----------------------------------------------------------------------------
(* src/store.rs: Store::get_ipthreat, called by the thread of the window   *)
(* while run_duplex may be running                                         *)

MaxCalls == 3
ThreatIps == {IpNewYork, IpBeijing}

Contains(v, x) == \E i \in 1..Len(v) : v[i] = x

\* get_ipthreat without the look at the cache
threat_lookup_skips_cache(tbl, failed, ip) ==
    IF Contains(failed, ip) THEN [at |-> "idle", ip |-> ip, ret |-> None]
    ELSE [at |-> "fetch", ip |-> ip, ret |-> None]

\* get_ipthreat up to the request: lock, get_threat, drop; the cached row
\* is returned, an address of failed_ips gives None, else ipq is asked
threat_lookup(tbl, failed, ip) ==
    LET ipthreat_ == get_threat(tbl, ip)
    IN IF IsSome(ipthreat_) THEN [at |-> "idle", ip |-> ip, ret |-> ipthreat_]
       ELSE IF Contains(failed, ip) THEN [at |-> "idle", ip |-> ip, ret |-> None]
       ELSE [at |-> "fetch", ip |-> ip, ret |-> None]

GetIpThreat ==
    \E ip \in ThreatIps :
        /\ caller.at = "idle"
        /\ calls < MaxCalls
        /\ lock = "free"
        /\ calls' = calls + 1
        /\ caller' = threat_lookup(ipthreat, failed_ips, ip)
        /\ UNCHANGED <<ipthreat, failed_ips, lookups>>
        /\ UNCHANGED <<storageVars, vibeVars, duplexVars, unitVars, lockVars>>

\* self.queries.ipq.get_threat(ip) answers; a failure is pushed on
\* failed_ips and None is returned
FetchThreat ==
    \E answer \in ThreatAnswers :
        /\ caller.at = "fetch"
        /\ lookups' = Append(lookups, [fact |-> "threat", ip |-> caller.ip,
                                       ok |-> IsSome(answer)])
        /\ IF IsSome(answer)
           THEN /\ caller' = [caller EXCEPT !.at = "add", !.ret = answer]
                /\ UNCHANGED failed_ips
           ELSE /\ caller' = [caller EXCEPT !.at = "idle", !.ret = None]
                /\ failed_ips' = Append(failed_ips, caller.ip)
        /\ UNCHANGED <<ipthreat, calls>>
        /\ UNCHANGED <<storageVars, vibeVars, duplexVars, unitVars, lockVars>>

\* lock, storage.add_threat(ip, ipthreat.clone()), Some(ipthreat)
AddThreat ==
    /\ caller.at = "add"
    /\ lock = "free"
    /\ ipthreat' = add_threat(ipthreat, caller.ip, Unwrap(caller.ret))
    /\ caller' = [caller EXCEPT !.at = "idle"]
    /\ UNCHANGED <<failed_ips, lookups, calls>>
    /\ UNCHANGED <<storageVars, vibeVars, duplexVars, unitVars, lockVars>>

AccessNext ==
    \/ GetIpThreat
    \/ FetchThreat
    \/ AddThreat
    \/ StartRun
    \/ FetchFails
    \/ Pass1User
    \/ EndPass1
    \/ BeginPass2
    \/ SkipPass2
    \/ Pass2User
    \/ EndPass2
    \/ BeginPass3
    \/ Pass3User
    \/ Finish

\* what Splunk holds when the window asks for threats during a run
AccessPopulations == {Pop(UnenrolledAway, BackAndForth)}

AccessInit ==
    /\ population \in AccessPopulations
    /\ hdtools_on \in BOOLEAN
    /\ DuplexIdle

AccessOnlyInit == StorageInit /\ VibeIdle /\ AccessInit /\ RestIdle

AccessSpec == AccessOnlyInit /\ [][AccessNext]_vars

----------------------------------------------------------------------------
(* src/storage.rs: Storage::load and the check of the schema               *)

\* The columns, as (name, type), the schema check expects of each table
CHECK_DB ==
    [t \in {"investigated_users", "hdtools", "ipthreat", "ipinfo", "misc"} |->
       CASE t = "investigated_users" ->
              {<<"name", "TEXT">>, <<"time", "INTEGER">>}
         [] t = "hdtools" ->
              {<<"name", "TEXT">>, <<"time", "INTEGER">>, <<"city", "TEXT">>,
               <<"state", "TEXT">>, <<"country", "TEXT">>}
         [] t = "ipthreat" ->
              {<<"ip", "INTEGER">>, <<"is_tor", "INTEGER">>,
               <<"is_icloud_relay", "INTEGER">>, <<"is_proxy", "INTEGER">>,
               <<"is_datacenter", "INTEGER">>, <<"is_anonymous", "INTEGER">>,
               <<"is_known_attacker", "INTEGER">>,
               <<"is_known_abuser", "INTEGER">>, <<"is_threat", "INTEGER">>,
               <<"is_bogon", "INTEGER">>}
         [] t = "ipinfo" ->
              {<<"ip", "INTEGER">>, <<"hostname", "TEXT">>, <<"city", "TEXT">>,
               <<"region", "TEXT">>, <<"country", "TEXT">>, <<"lat", "REAL">>,
               <<"lon", "REAL">>, <<"org", "TEXT">>, <<"postal", "TEXT">>,
               <<"timezone", "TEXT">>}
         [] t = "misc" -> {<<"key", "INTEGER">>, <<"value", "TEXT">>}]

\* The tables CREATE_DB creates, with the columns and types it gives them:
\* those of CHECK_DB
CREATE_DB == CHECK_DB

\* One table of a duplex.db found on disk: as expected, without its last
\* column, with a column more, or with its key column of another type
KeyColumn(t) == IF t = "misc" THEN <<"key", "INTEGER">>
                ELSE IF t \in {"ipthreat", "ipinfo"} THEN <<"ip", "INTEGER">>
                ELSE <<"name", "TEXT">>
LastColumn(t) ==
    CASE t = "investigated_users" -> <<"time", "INTEGER">>
      [] t = "hdtools" -> <<"country", "TEXT">>
      [] t = "ipthreat" -> <<"is_bogon", "INTEGER">>
      [] t = "ipinfo" -> <<"timezone", "TEXT">>
      [] t = "misc" -> <<"value", "TEXT">>
TableShapes == {"absent", "expected", "column missing", "column added", "type changed"}
ShapeColumns(t, shape) ==
    CASE shape = "expected" -> CHECK_DB[t]
      [] shape = "column missing" -> CHECK_DB[t] \ {LastColumn(t)}
      [] shape = "column added" -> CHECK_DB[t] \cup {<<"note", "TEXT">>}
      [] shape = "type changed" ->
           (CHECK_DB[t] \ {KeyColumn(t)}) \cup {<<KeyColumn(t)[1], "BLOB">>}

\* The file duplex.db: no file, or the columns of the tables it holds
DiskStore(shapes) ==
    [t \in {n \in DOMAIN CHECK_DB : shapes[n] # "absent"} |->
       ShapeColumns(t, shapes[t])]
DiskStores ==
    {None} \cup {Some(DiskStore(shapes)) : shapes \in [DOMAIN CHECK_DB -> TableShapes]}

\* PRAGMA table_info(name): the rows of the columns of the table, none for
\* a table the file does not hold
table_info(db, name) == IF name \in DOMAIN db THEN db[name] ELSE {}

\* The loop over CHECK_DB in Storage::load: valid_schema stays true unless
\* a row of table_info is not one of the expected (name, type)
valid_schema(db) ==
    \A name \in DOMAIN CHECK_DB :
        \A col \in table_info(db, name) : col \in CHECK_DB[name]

\* Storage::load: the tables of the Storage it returns, and whether the
\* rows on disk were kept
load(disk) ==
    IF IsSome(disk) /\ valid_schema(Unwrap(disk))
    THEN [db |-> Unwrap(disk), rows_kept |-> TRUE]
    ELSE [db |-> CREATE_DB, rows_kept |-> FALSE]

LoadInit ==
    /\ input \in DiskStores
    /\ output = None

Load ==
    /\ output = None
    /\ output' = Some(load(input))
    /\ UNCHANGED input
    /\ UNCHANGED <<storageVars, vibeVars, duplexVars, accessVars, lockVars>>

LoadNext == Load

LoadOnlyInit ==
    StorageInit /\ VibeIdle /\ DuplexIdle /\ NoPopulation /\ LoadInit
    /\ AccessIdle /\ LockIdle

LoadSpec == LoadOnlyInit /\ [][LoadNext]_vars

----------------------------------------------------------------------------
(* src/user/vpnlog.rs and Splunk::correlate_vpn_logs                       *)

\* the text of a MAC address as a log writes it: 17 characters, the hex
\* digits all c, a separator at every third place
Mac(c, sep) == [i \in 1..17 |-> IF i % 3 = 0 THEN sep ELSE c]

\* the tail of VpnLog::new: a record with the enrichment of its source
NewVpnLog(time, source_ip, dev_mac) ==
    LET geo == GeoOf(source_ip) IN
    [time |-> time,
     vpn_ip |-> IpVpn,
     source_ip |-> source_ip,
     dev_platform |-> "win",
     dev_mac |-> dev_mac,
     user_agent |-> "AnyConnect",
     correlate_prev |-> FALSE,
     city |-> geo,
     state |-> IF IsSome(geo) THEN Some(PlaceState(Unwrap(geo))) ELSE None,
     country |-> IF IsSome(geo) THEN Some(PlaceCountry(Unwrap(geo))) ELSE None,
     is_relay |-> source_ip = IpRelay]

\* VpnLog::correlates without the look at is_some
correlates_any_equal_mac(self, other) ==
    \/ self.source_ip = other.source_ip
    \/ self.dev_mac = other.dev_mac

\* VpnLog::correlates
correlates(self, other) ==
    \/ self.source_ip = other.source_ip
    \/ (IsSome(self.dev_mac) /\ self.dev_mac = other.dev_mac)

\* for i in 1..vpn_logs.len(), from i on; the Vec is indexed from 1 here,
\* so that the pair at hand is (i, i + 1)
RECURSIVE correlate_loop(_, _)
correlate_loop(vpn_logs, i) ==
    IF i + 1 > Len(vpn_logs) THEN vpn_logs
    ELSE correlate_loop(
             IF correlates(vpn_logs[i], vpn_logs[i + 1])
             THEN [vpn_logs EXCEPT ![i].correlate_prev = TRUE]
             ELSE vpn_logs,
             i + 1)

\* Splunk::correlate_vpn_logs
correlate_vpn_logs(vpn_logs) == correlate_loop(vpn_logs, 1)

\* What get_user_vpn hands to run_visor: up to MaxVpnLogs records of one
\* account, newest first, a minute apart
MaxVpnLogs == 3
VpnSources == {IpNewYork, IpBeijing, IpAtlanta}
VpnMacs == {None, Some(Mac("a", ":")), Some(Mac("3", ":"))}
VpnLogLists ==
    UNION {{[i \in 1..n |-> NewVpnLog(BaseTime - 60 * i, src[i], mac[i])] :
                src \in [1..n -> VpnSources], mac \in [1..n -> VpnMacs]} :
           n \in 0..MaxVpnLogs}

CorrelateInit ==
    /\ input \in VpnLogLists
    /\ output = None

\* run_visor: correlate_vpn_logs on what get_user_vpn returned
Correlate ==
    /\ output = None
    /\ output' = Some(correlate_vpn_logs(input))
    /\ UNCHANGED input
    /\ UNCHANGED <<storageVars, vibeVars, duplexVars, accessVars, lockVars>>

CorrelateNext == Correlate

CorrelateOnlyInit ==
    StorageInit /\ VibeIdle /\ DuplexIdle /\ NoPopulation /\ CorrelateInit
    /\ AccessIdle /\ LockIdle

CorrelateSpec == CorrelateOnlyInit /\ [][CorrelateNext]_vars

----------------------------------------------------------------------------
(* src/user/vpnlog.rs: VpnLog::new on a line of the Splunk response         *)

\* What a line holds after each key the regexes look for: None where the
\* key is absent.  A time is its seconds and whether it is written in
\* DATE_FORMAT, an address is its dotted parts, a MAC is its characters.
VpnLine(time, framed, calling, platform, mac, agent) ==
    [_time |-> time, Framed_IP_Address |-> framed,
     Calling_Station_ID |-> calling, device_platform |-> platform,
     device_mac |-> mac, user_agent |-> agent]

\* NaiveDateTime::parse_from_str(&time, DATE_FORMAT).ok()
parse_from_str(text) == IF text.in_format THEN Some(text.secs) ELSE None

\* str::parse::<Ipv4Addr>().ok(): four parts, each 0..=255
parse_ip(text) ==
    IF Len(text) = 4 /\ \A i \in 1..4 : text[i] >= 0 /\ text[i] <= 255
    THEN Some(text) ELSE None

\* the class [0-9a-f\-:] of MAC_RE
MacClass ==
    {"0", "1", "2", "3", "4", "5", "6", "7", "8", "9",
     "a", "b", "c", "d", "e", "f", "-", ":"}

\* MAC_RE.captures(log).map(|c| c[1].to_string()): the 17 characters that
\* follow device-mac=, if all of them are of the class
MAC_RE(field) ==
    IF /\ IsSome(field)
       /\ Len(Unwrap(field)) >= 17
       /\ \A i \in 1..17 : Unwrap(field)[i] \in MacClass
    THEN Some(SubSeq(Unwrap(field), 1, 17))
    ELSE None

\* VpnLog::new
VpnLog_new(log) ==
    IF ~IsSome(log._time) THEN None
    ELSE IF ~IsSome(parse_from_str(Unwrap(log._time))) THEN None
    ELSE IF ~IsSome(log.Framed_IP_Address) THEN None
    ELSE IF ~IsSome(parse_ip(Unwrap(log.Framed_IP_Address))) THEN None
    ELSE IF ~IsSome(log.Calling_Station_ID) THEN None
    ELSE IF ~IsSome(parse_ip(Unwrap(log.Calling_Station_ID))) THEN None
    ELSE IF ~IsSome(log.device_platform) THEN None
    ELSE IF ~IsSome(log.user_agent) THEN None
    ELSE
    LET source_ip == Unwrap(parse_ip(Unwrap(log.Calling_Station_ID)))
        geo == GeoOf(source_ip)
    IN Some([time |-> Unwrap(parse_from_str(Unwrap(log._time))),
             vpn_ip |-> Unwrap(parse_ip(Unwrap(log.Framed_IP_Address))),
             source_ip |-> source_ip,
             dev_platform |-> Unwrap(log.device_platform),
             dev_mac |-> MAC_RE(log.device_mac),
             user_agent |-> Unwrap(log.user_agent),
             correlate_prev |-> FALSE,
             city |-> geo,
             state |-> IF IsSome(geo) THEN Some(PlaceState(Unwrap(geo)))
                       ELSE None,
             country |-> IF IsSome(geo) THEN Some(PlaceCountry(Unwrap(geo)))
                         ELSE None,
             is_relay |-> source_ip = IpRelay])

\* The lines of a response: a complete line, or one with a key absent or
\* a value that does not parse
VpnDefects ==
    {"none", "no _time", "bad _time", "no Framed-IP-Address",
     "bad Framed-IP-Address", "no Calling-Station-ID",
     "bad Calling-Station-ID", "no device-platform", "no user-agent"}

MacTexts ==
    {None, Some(Mac("a", ":")), Some(Mac("a", "-")), Some(Mac("A", ":")),
     Some(Mac("3", ":"))}

VpnLineOf(defect, secs, source, mac) ==
    VpnLine(IF defect = "no _time" THEN None
            ELSE Some([secs |-> secs, in_format |-> defect # "bad _time"]),
            IF defect = "no Framed-IP-Address" THEN None
            ELSE IF defect = "bad Framed-IP-Address" THEN Some(<<130, 127, 255>>)
            ELSE Some(IpVpn),
            IF defect = "no Calling-Station-ID" THEN None
            ELSE IF defect = "bad Calling-Station-ID" THEN Some(<<24, 4, 4, 256>>)
            ELSE Some(source),
            IF defect = "no device-platform" THEN None ELSE Some("win"),
            mac,
            IF defect = "no user-agent" THEN None ELSE Some("AnyConnect"))

VpnLines(secs) ==
    {VpnLineOf(defect, secs, source, mac) :
        defect \in VpnDefects, source \in {IpNewYork, IpBeijing},
        mac \in MacTexts}

\* two lines of one response, the newer first
VpnParseInit ==
    /\ input \in VpnLines(BaseTime) \X VpnLines(BaseTime - 60)
    /\ output = None

\* get_user_vpn: filter_map(|l| VpnLog::new(l, &self.ipinfo)), kept per line
ParseVpn ==
    /\ output = None
    /\ output' = Some([k \in 1..2 |-> VpnLog_new(input[k])])
    /\ UNCHANGED input
    /\ UNCHANGED <<storageVars, vibeVars, duplexVars, accessVars, lockVars>>

VpnParseNext == ParseVpn

VpnParseOnlyInit ==
    StorageInit /\ VibeIdle /\ DuplexIdle /\ NoPopulation /\ VpnParseInit
    /\ AccessIdle /\ LockIdle

VpnParseSpec == VpnParseOnlyInit /\ [][VpnParseNext]_vars

----------------------------------------------------------------------------
(* src/queries/ip.rs: the lookups of IpDB in its range tables              *)

\* u32::from(Ipv4Addr): the four octets, big-endian
to_u32(ip) == ((ip[1] * 256 + ip[2]) * 256 + ip[3]) * 256 + ip[4]

\* the closure of binary_search_by with the upper bound left out of the row
range_cmp_upper_open(l, ip) ==
    IF l.lower > ip THEN "Greater"
    ELSE IF l.upper <= ip THEN "Less"
    ELSE "Equal"

\* the closure given to binary_search_by
range_cmp(l, ip) ==
    IF l.lower > ip THEN "Greater"
    ELSE IF l.upper < ip THEN "Less"
    ELSE "Equal"

\* the loop of slice::binary_search_by; the indices count from 0 as in the
\* source, the row at index mid is db[mid + 1]
RECURSIVE search_loop(_, _, _, _)
search_loop(db, ip, left, right) ==
    IF left < right
    THEN LET mid == left + ((right - left) \div 2)
             c == range_cmp(db[mid + 1], ip)
         IN IF c = "Less" THEN search_loop(db, ip, mid + 1, right)
            ELSE IF c = "Greater" THEN search_loop(db, ip, left, mid)
            ELSE [ok |-> TRUE, idx |-> mid]
    ELSE [ok |-> FALSE, idx |-> left]

binary_search_by(db, ip) == search_loop(db, ip, 0, Len(db))

\* IpDB::get_iploc
get_iploc(ipdb, ip) ==
    LET i == binary_search_by(ipdb.iploc_db, to_u32(ip))
    IN IF i.ok THEN Some(ipdb.iploc_db[i.idx + 1]) ELSE None

\* IpDB::is_proxy
is_proxy(ipdb, ip) == binary_search_by(ipdb.proxy_db, to_u32(ip)).ok

\* IpDB::get_asn
get_asn(ipdb, ip) ==
    LET i == binary_search_by(ipdb.asn_db, to_u32(ip))
    IN IF i.ok THEN ipdb.asn_db[i.idx + 1].asn ELSE None

\* The tables: up to MaxRows rows over a few bounds, ascending and apart
MaxRows == 3
RangePoints == {0, 1, 2, 3, 5, 256, 16777216}

RangeLists ==
    UNION {{r \in [1..n -> {p \in RangePoints \X RangePoints : p[1] <= p[2]}] :
                \A i \in 1..(n - 1) : r[i][2] < r[i + 1][1]} :
           n \in 0..MaxRows}

\* IpDB::new on three files that list the same ranges: a row of iploc_db
\* names a city, every second row of asn_db has "-" for its ASN
IpDBOf(ranges) ==
    [iploc_db |-> [i \in DOMAIN ranges |->
                      [lower |-> ranges[i][1], upper |-> ranges[i][2],
                       city |-> Some(i)]],
     proxy_db |-> [i \in DOMAIN ranges |->
                      [lower |-> ranges[i][1], upper |-> ranges[i][2]]],
     asn_db |-> [i \in DOMAIN ranges |->
                    [lower |-> ranges[i][1], upper |-> ranges[i][2],
                     asn |-> IF i % 2 = 0 THEN None ELSE Some(i)]]]

ProbeIps ==
    {<<0, 0, 0, d>> : d \in 0..6} \cup {<<0, 0, 1, 0>>, <<1, 0, 0, 0>>,
                                        <<0, 0, 0, 255>>}

RangeInit ==
    /\ input \in {[ipdb |-> IpDBOf(r), ip |-> ip] :
                     r \in RangeLists, ip \in ProbeIps}
    /\ output = None

\* the three lookups of one address
Lookup ==
    /\ output = None
    /\ output' = Some([iploc |-> get_iploc(input.ipdb, input.ip),
                       proxy |-> is_proxy(input.ipdb, input.ip),
                       asn |-> get_asn(input.ipdb, input.ip)])
    /\ UNCHANGED input
    /\ UNCHANGED <<storageVars, vibeVars, duplexVars, accessVars, lockVars>>

RangeNext == Lookup

RangeOnlyInit ==
    StorageInit /\ VibeIdle /\ DuplexIdle /\ NoPopulation /\ RangeInit
    /\ AccessIdle /\ LockIdle

RangeSpec == RangeOnlyInit /\ [][RangeNext]_vars

----------------------------------------------------------------------------
(* src/user/login.rs: Login::new on a line of the Splunk response          *)

\* A text is the sequence of its characters.
Alice == <<"a", "l", "i", "c", "e">>
System == <<"S", "y", "s", "t", "e", "m">>

\* obj.replace('\\', ""), on the text of a field
StripBackslash(text) ==
    LET keep(c) == c # "\\" IN SelectSeq(text, keep)

\* USERNAME_RE "user": ?"([^"]+)": the value of the key, if it is not empty
USERNAME_RE(field) ==
    IF IsSome(field) /\ Len(StripBackslash(Unwrap(field))) >= 1
    THEN Some(StripBackslash(Unwrap(field))) ELSE None

\* user.contains(' ') || user == "System", without the second test
rejected_name_space_only(user) == Contains(user, " ")

\* user.contains(' ') || user == "System"
rejected_name(user) == Contains(user, " ") \/ user = System

\* Local.datetime_from_str(&cap[1], DATE_FORMAT): Err when the text is not
\* in the format, and when the local time it names does not exist or
\* exists twice (the change of the offset in spring and autumn)
datetime_from_str(text) ==
    IF text.in_format /\ text.local = "single" THEN Some(text.secs) ELSE None

\* impl From<&str> for Factor
FactorFrom(fac) ==
    CASE fac = "Duo Push" -> "DuoPush"
      [] fac = "n/a" -> "None"
      [] fac = "Passcode" -> "Passcode"
      [] OTHER -> "None"

\* impl From<&str> for Integration
IntegrationFrom(int) ==
    CASE int = "Shibboleth" -> <<"Shibboleth">>
      [] int = "Shibboleth External" -> <<"Shibboleth">>
      [] int = "Device Management Portal" -> <<"Dmp">>
      [] OTHER -> <<"Other", int>>

\* str::to_lowercase, on the reasons of the inputs
to_lowercase(s) ==
    CASE s = "User Approved" -> "user approved"
      [] s = "No Response" -> "no response"
      [] OTHER -> s

\* impl From<&str> for Reason
ReasonFrom(res) ==
    CASE to_lowercase(res) = "user approved" -> <<"UserApproved">>
      [] to_lowercase(res) = "no response" -> <<"NoResponse">>
      [] to_lowercase(res) = "deny unenrolled user" -> <<"DenyUnenrolledUser">>
      [] OTHER -> <<"Other", to_lowercase(res)>>

\* impl From<&str> for LoginResult
LoginResultFrom(res) ==
    CASE res = "SUCCESS" -> <<"Success">>
      [] res = "FAILURE" -> <<"Failure">>
      [] res = "FRAUD" -> <<"Fraud">>
      [] OTHER -> <<"Other", res>>

\* The closure of IP_RE's and_then.  The text of the key is dotted parts,
\* or localhost, or a host name whose first label is dashed parts.
ip_of_text(text) ==
    CASE text.form = "dotted" -> parse_ip(text.parts)
      [] text.form = "localhost" -> Some(<<127, 0, 0, 1>>)
      [] text.form = "hostname" -> parse_ip(text.parts)

\* IpDB::get_asn on the address of a log
AsnOf(ip) == IF IsSome(GeoOf(ip)) THEN Some("AS 1") ELSE None

\* Login::new.  obj holds, for each key, the text after it or None.
Login_new(obj) ==
    LET user == USERNAME_RE(obj.user) IN
    IF ~IsSome(user) THEN None
    ELSE IF rejected_name(Unwrap(user)) THEN None
    ELSE IF ~IsSome(obj._time) THEN None
    ELSE IF ~IsSome(datetime_from_str(Unwrap(obj._time))) THEN None
    ELSE
    LET ip == IF IsSome(obj.ip) THEN ip_of_text(Unwrap(obj.ip)) ELSE None
        geo == IF IsSome(ip) THEN GeoOf(Unwrap(ip)) ELSE None
    IN Some([city |-> geo,
             country |-> IF IsSome(geo) THEN Some(PlaceCountry(Unwrap(geo)))
                         ELSE None,
             device |-> obj.device,
             factor |-> IF IsSome(obj.factor) THEN FactorFrom(Unwrap(obj.factor))
                        ELSE "None",
             integration |-> IF IsSome(obj.integration)
                             THEN IntegrationFrom(Unwrap(obj.integration))
                             ELSE <<"None">>,
             ip |-> ip,
             location |-> geo,
             reason |-> IF IsSome(obj.reason) THEN ReasonFrom(Unwrap(obj.reason))
                        ELSE <<"None">>,
             result |-> IF IsSome(obj.result)
                        THEN LoginResultFrom(Unwrap(obj.result))
                        ELSE <<"None">>,
             state |-> IF IsSome(geo) THEN Some(PlaceState(Unwrap(geo)))
                       ELSE None,
             time |-> Unwrap(datetime_from_str(Unwrap(obj._time))),
             user |-> Unwrap(user),
             is_relay |-> IF IsSome(ip) THEN Unwrap(ip) = IpRelay ELSE FALSE,
             asn |-> IF IsSome(ip) THEN AsnOf(Unwrap(ip)) ELSE None,
             flag_reasons |-> <<>>])

\* The lines of a response.  NBSP is the no-break space U+00A0.
UserTexts ==
    {None, Some(<<>>), Some(Alice), Some(System),
     Some(<<"s", "y", "s", "t", "e", "m">>),
     Some(<<"A", "P", "I", " ", "U", "s", "e", "r">>),
     Some(<<"A", "P", "I", "NBSP", "U", "s", "e", "r">>),
     Some(<<"b", "\\", "o", "b">>)}

TimeTexts ==
    {None,
     Some([secs |-> BaseTime, in_format |-> TRUE, local |-> "single"]),
     Some([secs |-> BaseTime, in_format |-> FALSE, local |-> "single"]),
     Some([secs |-> BaseTime, in_format |-> TRUE, local |-> "twice"])}

IpTexts ==
    {None,
     Some([form |-> "dotted", parts |-> IpNewYork]),
     Some([form |-> "dotted", parts |-> <<24, 4, 4>>]),
     Some([form |-> "localhost", parts |-> <<>>]),
     Some([form |-> "hostname", parts |-> IpRelay]),
     Some([form |-> "hostname", parts |-> <<>>])}

LoginLines ==
    [user : UserTexts,
     _time : TimeTexts,
     device : {None, Some("phone")},
     factor : {None, Some("Duo Push"), Some("Carrier Pigeon")},
     integration : {None, Some("Shibboleth External")},
     reason : {None, Some("User Approved")},
     result : {None, Some("SUCCESS"), Some("DENIED")},
     ip : IpTexts]

LoginParseInit ==
    /\ input \in LoginLines
    /\ output = None

\* get_logins: filter_map(|l| Login::new(l, &self.ipinfo)), for one line;
\* output is Some of what Login::new returned
ParseLogin ==
    /\ output = None
    /\ output' = Some(Login_new(input))
    /\ UNCHANGED input
    /\ UNCHANGED <<storageVars, vibeVars, duplexVars, accessVars, lockVars>>

LoginParseNext == ParseLogin

LoginParseOnlyInit ==
    StorageInit /\ VibeIdle /\ DuplexIdle /\ NoPopulation /\ LoginParseInit
    /\ AccessIdle /\ LockIdle

LoginParseSpec == LoginParseOnlyInit /\ [][LoginParseNext]_vars

----------------------------------------------------------------------------
(* src/queries/splunk.rs: logins.par_sort(); logins.dedup()                *)

\* impl PartialOrd for Login: other.time.partial_cmp(&self.time)
login_partial_cmp(self, other) ==
    IF other.time < self.time THEN "Less"
    ELSE IF other.time > self.time THEN "Greater"
    ELSE "Equal"

\* impl PartialEq for Login
login_eq(self, other) == other.time = self.time /\ other.user = self.user

RECURSIVE login_insert(_, _)
\* x placed after every element it is not less than
login_insert(sorted, x) ==
    IF sorted = <<>> THEN <<x>>
    ELSE IF login_partial_cmp(x, sorted[1]) = "Less"
         THEN <<x>> \o sorted
         ELSE <<sorted[1]>> \o login_insert(Tail(sorted), x)

RECURSIVE par_sort_from(_, _, _)
par_sort_from(v, i, sorted) ==
    IF i > Len(v) THEN sorted
    ELSE par_sort_from(v, i + 1, login_insert(sorted, v[i]))

\* logins.par_sort(): rayon's stable sort, which orders by T::lt
par_sort(v) == par_sort_from(v, 1, <<>>)

\* Vec::dedup: of consecutive elements that are equal, the first is kept
RECURSIVE dedup(_)
dedup(v) ==
    IF Len(v) <= 1 THEN v
    ELSE IF login_eq(v[1], v[2])
         THEN dedup(<<v[1]>> \o Tail(Tail(v)))
         ELSE <<v[1]>> \o dedup(Tail(v))

\* What filter_map(Login::new) collects: up to MaxRecords records, in the
\* order of the lines of the response
MaxRecords == 4
ParsedLogins ==
    [time : {BaseTime, BaseTime - 60}, user : {"alice", "bob"}]
ParsedLists == UNION {[1..n -> ParsedLogins] : n \in 0..MaxRecords}

GetLoginsInit ==
    /\ input \in ParsedLists
    /\ output = None

\* the tail of get_logins and of get_user_logins
SortDedup ==
    /\ output = None
    /\ output' = Some(dedup(par_sort(input)))
    /\ UNCHANGED input
    /\ UNCHANGED <<storageVars, vibeVars, duplexVars, accessVars, lockVars>>

GetLoginsNext == SortDedup

GetLoginsOnlyInit ==
    StorageInit /\ VibeIdle /\ DuplexIdle /\ NoPopulation /\ GetLoginsInit
    /\ AccessIdle /\ LockIdle

GetLoginsSpec == GetLoginsOnlyInit /\ [][GetLoginsNext]_vars

----------------------------------------------------------------------------
(* src/store.rs: the Mutex of the storage and the threads that take it:    *)
(* run_duplex, run_simplex, and the thread of the window in                *)
(* mark_investigated and get_ipthreat                                      *)

\* everything the steps of the caller in get_ipthreat leave alone
callerRest == <<vibeVars, unitVars, lockVars, population, hdtools_on, pc,
                users, next_idx, kept, returned, progress, hdtools, ipinfo,
                events, checks>>

\* the calls the thread of the window makes while the other threads run
MaxCallerOps == 2

\* Store::mark_investigated is called
WantMark ==
    /\ caller.at = "idle"
    /\ marks < MaxMarks
    /\ calls + marks < MaxCallerOps
    /\ marks' = marks + 1
    /\ caller' = [caller EXCEPT !.at = "want_mark"]
    /\ UNCHANGED <<now, ticks, investigated_users, misc, markedAt,
                   unmarkedSince, lastSet>>
    /\ UNCHANGED <<ipthreat, failed_ips, lookups, calls, lock>>
    /\ UNCHANGED callerRest

\* self.storage.lock() returns without the Mutex being free
LockForMark_without_mutex ==
    /\ caller.at = "want_mark"
    /\ lock' = "caller"
    /\ caller' = [caller EXCEPT !.at = "in_mark"]
    /\ UNCHANGED <<storageVars, ipthreat, failed_ips, lookups, calls>>
    /\ UNCHANGED callerRest

\* self.storage.lock() in mark_investigated returns
LockForMark ==
    /\ caller.at = "want_mark"
    /\ lock = "free"
    /\ lock' = "caller"
    /\ caller' = [caller EXCEPT !.at = "in_mark"]
    /\ UNCHANGED <<storageVars, ipthreat, failed_ips, lookups, calls>>
    /\ UNCHANGED callerRest

\* storage.mark_investigated(user, mark), and the guard is dropped
DoMark ==
    \E name \in Names, mark \in BOOLEAN :
        /\ caller.at = "in_mark"
        /\ investigated_users' = mark_investigated(investigated_users, now, name, mark)
        /\ IF mark
           THEN /\ markedAt' = [n \in DOMAIN markedAt \cup {name} |->
                                  IF n = name THEN now ELSE markedAt[n]]
                /\ unmarkedSince' = unmarkedSince \ {name}
           ELSE /\ markedAt' = markedAt
                /\ unmarkedSince' = unmarkedSince \cup {name}
        /\ lock' = "free"
        /\ caller' = [caller EXCEPT !.at = "idle"]
        /\ UNCHANGED <<now, ticks, misc, lastSet, marks>>
        /\ UNCHANGED <<ipthreat, failed_ips, lookups, calls>>
        /\ UNCHANGED callerRest

\* Store::get_ipthreat(ip) is called
WantThreat ==
    \E ip \in ThreatIps :
        /\ caller.at = "idle"
        /\ calls < MaxCalls
        /\ calls + marks < MaxCallerOps
        /\ calls' = calls + 1
        /\ caller' = [at |-> "want_get", ip |-> ip, ret |-> None]
        /\ UNCHANGED <<storageVars, ipthreat, failed_ips, lookups, lock>>
        /\ UNCHANGED callerRest

\* the first self.storage.lock() of get_ipthreat returns
LockForGet ==
    /\ caller.at = "want_get"
    /\ lock = "free"
    /\ lock' = "caller"
    /\ caller' = [caller EXCEPT !.at = "in_get"]
    /\ UNCHANGED <<storageVars, ipthreat, failed_ips, lookups, calls>>
    /\ UNCHANGED callerRest

\* storage.get_threat(ip); drop(storage); a cached row is returned
ReadThreat ==
    /\ caller.at = "in_get"
    /\ lock' = "free"
    /\ caller' = [caller EXCEPT
                    !.ret = get_threat(ipthreat, caller.ip),
                    !.at = IF IsSome(get_threat(ipthreat, caller.ip))
                           THEN "idle" ELSE "check_failed"]
    /\ UNCHANGED <<storageVars, ipthreat, failed_ips, lookups, calls>>
    /\ UNCHANGED callerRest

\* self.failed_ips.read().contains(&ip): None is returned for a failed
\* address; the guard of failed_ips is dropped with the condition
CheckFailed ==
    /\ caller.at = "check_failed"
    /\ caller' = [caller EXCEPT
                    !.at = IF Contains(failed_ips, caller.ip)
                           THEN "idle" ELSE "fetch"]
    /\ UNCHANGED <<storageVars, ipthreat, failed_ips, lookups, calls, lock>>
    /\ UNCHANGED callerRest

\* the second self.storage.lock() of get_ipthreat returns
LockForAdd ==
    /\ caller.at = "add"
    /\ lock = "free"
    /\ lock' = "caller"
    /\ caller' = [caller EXCEPT !.at = "in_add"]
    /\ UNCHANGED <<storageVars, ipthreat, failed_ips, lookups, calls>>
    /\ UNCHANGED callerRest

\* storage.add_threat(ip, ipthreat.clone()); the guard is dropped
StoreThreat ==
    /\ caller.at = "in_add"
    /\ ipthreat' = add_threat(ipthreat, caller.ip, Unwrap(caller.ret))
    /\ lock' = "free"
    /\ caller' = [caller EXCEPT !.at = "idle"]
    /\ UNCHANGED <<storageVars, failed_ips, lookups, calls>>
    /\ UNCHANGED callerRest

\* everything the steps of run_simplex leave alone
simplexRest == <<storageVars, vibeVars, unitVars, accessVars, population,
                 hdtools_on, pc, users, next_idx, kept, returned, progress,
                 ipinfo, events, checks>>

\* run_simplex: the thread is spawned and get_user_logins answers; on Err
\* the thread returns None
SimplexStart ==
    \E ok \in BOOLEAN :
        /\ simplex = "idle"
        /\ simplex' = IF ok THEN "want" ELSE "done"
        /\ UNCHANGED <<lock, hdtools>>
        /\ UNCHANGED simplexRest

\* storage.lock() in run_simplex returns
SimplexLock ==
    /\ simplex = "want"
    /\ lock = "free"
    /\ lock' = "run_simplex"
    /\ simplex' = "held"
    /\ UNCHANGED hdtools
    /\ UNCHANGED simplexRest

\* the table after run_simplex for name: get_hdtools, and when the date or
\* the location is missing hdtool.get_info and add_hdtools
simplex_hdtools(tbl, name, on, answer) ==
    LET cached == get_hdtools(tbl, name)
        missing == ~IsSome(cached) \/ ~IsSome(Unwrap(cached).location)
    IN IF missing /\ on /\ IsSome(answer)
       THEN add_hdtools(tbl, name, Unwrap(answer))
       ELSE tbl

\* the rest of the closure of run_simplex; the guard is dropped after
\* add_hdtools or at the end of the closure
SimplexFinish ==
    \E name \in Names, answer \in HdAnswers :
        /\ simplex = "held"
        /\ hdtools' = simplex_hdtools(hdtools, name, hdtools_on, answer)
        /\ lock' = "free"
        /\ simplex' = "done"
        /\ UNCHANGED simplexRest

\* the steps of each thread once it has been started
DuplexSteps ==
    \/ Pass1User
    \/ EndPass1
    \/ BeginPass2
    \/ SkipPass2
    \/ Pass2User
    \/ EndPass2
    \/ BeginPass3
    \/ Pass3User
    \/ Finish

CallerSteps ==
    \/ LockForMark
    \/ DoMark
    \/ LockForGet
    \/ ReadThreat
    \/ CheckFailed
    \/ FetchThreat
    \/ LockForAdd
    \/ StoreThreat

SimplexSteps ==
    \/ SimplexLock
    \/ SimplexFinish

LockNext ==
    \/ StartRun
    \/ FetchFails
    \/ WantMark
    \/ WantThreat
    \/ SimplexStart
    \/ DuplexSteps
    \/ CallerSteps
    \/ SimplexSteps

\* what Splunk holds while the threads contend: one account with a Fraud
\* log, one without logs
LockPopulations == {Pop(<<>>, FraudOnly)}

LockInit ==
    /\ population \in LockPopulations
    /\ hdtools_on \in BOOLEAN
    /\ DuplexIdle

LockOnlyInit == StorageInit /\ VibeIdle /\ LockInit /\ RestIdle

LockSpec == LockOnlyInit /\ [][LockNext]_vars

\* the steps of run_duplex between and around the accounts of a pass
DuplexMoves ==
    \/ EndPass1
    \/ BeginPass2
    \/ SkipPass2
    \/ Pass2User
    \/ EndPass2
    \/ BeginPass3
    \/ Finish

\* WF_vars(Pass1User) and WF_vars(Pass3User), with the guard of the step
\* written out in place of ENABLED: the step of a pass for the account at
\* hand is possible whenever the iterator has an account left
PassFair ==
    /\ \/ []<>~(pc = "pass1" /\ next_idx <= Len(users))
       \/ []<><<Pass1User>>_vars
    /\ \/ []<>~(pc = "pass3" /\ next_idx <= Len(users))
       \/ []<><<Pass3User>>_vars

\* every thread that can take a step takes one: the scheduler runs it, and
\* the services outside answer or fail
LockFairSpec ==
    /\ LockSpec
    /\ WF_vars(DuplexMoves)
    /\ PassFair
    /\ WF_vars(CallerSteps)
    /\ WF_vars(SimplexSteps)

----------------------------------------------------------------------------
(* src/user/mod.rs: failures, impossible_travel_precheck and               *)
(* second_vibe_check on one account                                        *)

MaxAccountLogins == 3

ClemsonSuccess == NewLogin("Success", "Shibboleth", "None", Some(IpClemson), 1110)
ClemsonFailure == NewLogin("Failure", "Shibboleth", "None", Some(IpClemson), 1110)

\* The logs of an account.  A row of ip2location.csv with "-" for its state
\* or its country code gives a log with the one and without the other.
AccountKinds ==
    {ClemsonSuccess,
     ClemsonFailure,
     [ClemsonSuccess EXCEPT !.gap = 0],
     [ClemsonFailure EXCEPT !.gap = 0],
     [ClemsonFailure EXCEPT !.gap = 30 * 60],
     [ClemsonFailure EXCEPT !.gap = 30 * 60 + 1],
     [ClemsonFailure EXCEPT !.integration = "Dmp"],
     [ClemsonSuccess EXCEPT !.gap = 80000],
     NewLogin("Failure", "Shibboleth", "None", Some(IpCharlotte), 1110),
     NewLogin("Fraud", "Shibboleth", "None", Some(IpBeijing), 1110),
     [NewLogin("Failure", "Shibboleth", "None", Some(IpBeijing), 1110)
         EXCEPT !.state = None],
     [NewLogin("Failure", "Shibboleth", "None", Some(IpAtlanta), 1110)
         EXCEPT !.country = None],
     NewLogin("Failure", "Shibboleth", "DenyUnenrolledUser", Some(IpNewYork), 3599),
     NewLogin("Failure", "Shibboleth", "None", Some(IpVpn), 1110),
     NewLogin("Failure", "Shibboleth", "None", None, 1110)}

\* What HDTools says of where the account lives
HomeLocations ==
    {None,
     Some([city |-> "Charlotte", state |-> Some("NC"), country |-> Some("US")]),
     Some([city |-> "Clemson", state |-> Some("South Carolina"),
           country |-> Some("US")]),
     Some([city |-> "Clemson", state |-> None, country |-> None])}

\* ... and of when it was created: 180 days before BaseTime less 1110 s is
\* 180 days before the newest log of a list whose first gap is 1110 s
CreationDates ==
    {None, Some(BaseTime - 1000000), Some(BaseTime - 19000000),
     Some(BaseTime - 6 * 30 * 86400 - 1110)}

\* The accounts the passes look at: at least one checked log
Accounts ==
    {[NewUser("alice", Times(h), BaseTime) EXCEPT
         !.location = loc, !.creation_date = date] :
       h \in {k \in UNION {[1..n -> AccountKinds] : n \in 1..MaxAccountLogins} :
                k[1].gap <= MAX_IMPOSSIBLE_TRAVEL_TIME * 60},
       loc \in HomeLocations, date \in CreationDates}

AccountInit ==
    /\ input \in Accounts
    /\ output = None

\* the counts and verdicts of the account, and its first vibe check
Inspect ==
    /\ output = None
    /\ output' = Some([failures |-> failures(input),
                       precheck |-> impossible_travel_precheck(input),
                       second |-> second_vibe_check(input),
                       first |-> first_vibe_check(input)])
    /\ UNCHANGED input
    /\ UNCHANGED <<storageVars, vibeVars, duplexVars, accessVars, lockVars>>

AccountNext == Inspect

AccountOnlyInit ==
    StorageInit /\ VibeIdle /\ DuplexIdle /\ NoPopulation /\ AccountInit
    /\ AccessIdle /\ LockIdle

AccountSpec == AccountOnlyInit /\ [][AccountNext]_vars

----------------------------------------------------------------------------
(* src/store.rs: the closure of the third filter_map on one account        *)

MaxThirdLogins == 3

\* An address ip2location.csv has no row for; ipinfo.io places it in Clemson
IpUnlisted == <<36, 7, 7, 7>>

\* The logs of an account that has reached the third pass
ThirdKinds ==
    {NewLogin("Fraud", "Shibboleth", "None", Some(IpBeijing), 1110),
     NewLogin("Failure", "Shibboleth", "None", Some(IpNewYork), 1110),
     NewLogin("Failure", "Shibboleth", "None", Some(IpClemson), 1110),
     NewLogin("Failure", "Shibboleth", "None", Some(IpUnlisted), 1110),
     NewLogin("Failure", "Shibboleth", "None", Some(IpVpn), 1110),
     NewLogin("Failure", "Shibboleth", "None", Some(IpPrivate), 1110),
     NewLogin("Success", "Shibboleth", "None", Some(IpAtlanta), 3599),
     NewLogin("Failure", "Shibboleth", "None", Some(IpNewYork), 80000),
     NewLogin("Failure", "Shibboleth", "None", None, 1110)}

\* What the second pass has left on the account: nothing (no HDTools, or no
\* answer), or a creation date with or without a location
ThirdMetadata ==
    {[location |-> None, creation_date |-> None],
     [location |-> None, creation_date |-> Some(OldDate)],
     [location |-> Some(LocCharlotte), creation_date |-> Some(OldDate)],
     [location |-> Some([city |-> "Clemson", state |-> Some("South Carolina"),
                         country |-> Some("US")]),
      creation_date |-> Some(OldDate)]}

\* The accounts the first two passes have kept, as they have left them
ThirdAccounts ==
    {[first_vibe_check(NewUser("alice", Times(h), BaseTime)).user EXCEPT
         !.location = m.location, !.creation_date = m.creation_date] :
       h \in {k \in UNION {[1..n -> ThirdKinds] : n \in 1..MaxThirdLogins} :
                ~first_vibe_check(NewUser("alice", Times(k), BaseTime)).ret},
       m \in ThirdMetadata}

ThirdInit ==
    /\ input \in {[user |-> u, tbl |-> tbl, up |-> up] :
                    u \in {a \in ThirdAccounts : ~second_vibe_check(a)},
                    tbl \in {<<>>, add_ipinfo(<<>>, IpNewYork, IpInfoOf(IpNewYork))},
                    up \in SUBSET (1..MaxThirdLogins)}
    /\ output = None

\* the body of the closure on the account: the loop over its checked logs,
\* then the first vibe check and the look at investigated_users
ThirdFilter ==
    /\ output = None
    /\ output' = Some([looped |-> third_loop(input.user, input.tbl, 1,
                                             input.up, <<>>).user,
                       out |-> third_filter(input.user, input.tbl,
                                            investigated_users, now, input.up)])
    /\ UNCHANGED input
    /\ UNCHANGED <<storageVars, vibeVars, duplexVars, accessVars, lockVars>>

ThirdNext == ThirdFilter

ThirdOnlyInit ==
    StorageInit /\ VibeIdle /\ DuplexIdle /\ NoPopulation /\ ThirdInit
    /\ AccessIdle /\ LockIdle

ThirdSpec == ThirdOnlyInit /\ [][ThirdNext]_vars

----------------------------------------------------------------------------
(* The coordinate pairs: who builds them and how haversine_distance reads  *)
(* them.  A coordinate is written with the axis it measures.               *)

Lat(place) == [axis |-> "lat", of |-> place]
Lon(place) == [axis |-> "lon", of |-> place]

\* IpDB::new: a row of ip2location.csv ends with the latitude and the
\* longitude
IpLocRow(place) == [lat |-> Lat(place), lon |-> Lon(place)]

\* Deserialize for ip::Location: "lat,lon"
IpInfoLoc(place) == [loc |-> [lat |-> Lat(place), lon |-> Lon(place)]]

\* Login::new: location = Some((iploc.lat, iploc.lon))
enriched_location(iploc) == <<iploc.lat, iploc.lon>>

\* pass 3: user.logins[i].location = Some((ipinfo.loc.lat, ipinfo.loc.lon))
overwritten_location(info) == <<info.loc.lat, info.loc.lon>>

\* closer_to: let ip_loc = (ip.loc.lat, ip.loc.lon)
ip_loc(ip) == <<ip.loc.lat, ip.loc.lon>>

\* User::haversine_distance: theta (the latitude of the formula) is .1 of
\* each pair, lambda (the longitude) is .0
haversine_reads(p1, p2) ==
    [theta1 |-> p1[2], theta2 |-> p2[2],
     lambda1 |-> p1[1], lambda2 |-> p2[1]]

\* The location of a log: as Login::new set it, or as pass 3 has
\* overwritten it
LogLocation(log) ==
    IF log.overwritten
    THEN overwritten_location(IpInfoLoc(log.place))
    ELSE enriched_location(IpLocRow(log.place))

CoordInit ==
    /\ input \in [prev : [place : Places, overwritten : BOOLEAN],
                  next : [place : Places, overwritten : BOOLEAN],
                  ip : Places]
    /\ output = None

\* impossible_travel: the distance of a pair of logs
TravelDistance ==
    /\ output = None
    /\ output' = Some(<<haversine_reads(LogLocation(input.prev),
                                        LogLocation(input.next))>>)
    /\ UNCHANGED input
    /\ UNCHANGED <<storageVars, vibeVars, duplexVars, accessVars, lockVars>>

\* closer_to: cur_dist and new_dist
CloserDistances ==
    /\ output = None
    /\ output' = Some(<<haversine_reads(LogLocation(input.prev),
                                        LogLocation(input.next)),
                        haversine_reads(LogLocation(input.prev),
                                        ip_loc(IpInfoLoc(input.ip)))>>)
    /\ UNCHANGED input
    /\ UNCHANGED <<storageVars, vibeVars, duplexVars, accessVars, lockVars>>

CoordNext == TravelDistance \/ CloserDistances

CoordOnlyInit ==
    StorageInit /\ VibeIdle /\ DuplexIdle /\ NoPopulation /\ CoordInit
    /\ AccessIdle /\ LockIdle

CoordSpec == CoordOnlyInit /\ [][CoordNext]_vars

----------------------------------------------------------------------------
(* src/store.rs: the closure of the second filter_map on one account, in a *)
(* run that fetches its metadata and in a later run                        *)

MaxHdLogins == 2

HdKinds ==
    {Unenrolled1, AwayFailure1, Fraud1, HomeFailure1,
     NewLogin("Failure", "Shibboleth", "None", Some(IpVpn), 1110),
     NewLogin("Failure", "Shibboleth", "None", None, 1110)}

\* The accounts the first pass has kept, as it has left them
HdAccounts ==
    {first_vibe_check(NewUser("alice", Times(h), BaseTime)).user :
       h \in {k \in UNION {[1..n -> HdKinds] : n \in 1..MaxHdLogins} :
                ~first_vibe_check(NewUser("alice", Times(k), BaseTime)).ret}}

\* HDTools::get_info: nothing, or a creation date (old, recent, or one
\* second less than 180 days before a log of gap 3599) and maybe a location
HdInfos ==
    {None} \cup
    {Some([date |-> d, location |-> l]) :
        d \in {OldDate, RecentDate, BaseTime - 3599 - SixMonths + 1},
        l \in {None, Some(LocCharlotte),
               Some([city |-> "Clemson", state |-> None, country |-> None])}}

HdInit ==
    /\ input \in [user : HdAccounts, answer : HdInfos]
    /\ output = None

\* what a run of the closure leaves behind: the table, and whether the
\* account was kept, with its metadata
HdStep(first, out) ==
    /\ hdtools' = out.tbl
    /\ output' = Some([runs |-> IF first THEN 1 ELSE 2,
                       cold |-> IF first THEN out.item ELSE Unwrap(output).cold,
                       warm |-> IF first THEN None ELSE out.item])
    /\ UNCHANGED input
    /\ UNCHANGED <<population, hdtools_on, pc, users, next_idx, kept, returned,
                   progress, lock, ipinfo, events, checks>>
    /\ UNCHANGED <<storageRest, vibeVars, accessVars, lockVars>>

\* the run on an empty cache
ColdRun ==
    /\ output = None
    /\ HdStep(TRUE, second_filter(input.user, hdtools, input.answer))

\* a later run on the cache the first run has left
WarmRun ==
    /\ IsSome(output)
    /\ Unwrap(output).runs = 1
    /\ HdStep(FALSE, second_filter(input.user, hdtools, input.answer))

HdNext == ColdRun \/ WarmRun

HdOnlyInit ==
    StorageInit /\ VibeIdle /\ DuplexIdle /\ NoPopulation /\ HdInit
    /\ AccessIdle /\ LockIdle

HdSpec == HdOnlyInit /\ [][HdNext]_vars

----------------------------------------------------------------------------
(* src/store.rs: Store::get_ipthreat on one address, called twice          *)

\* Store::get_ipthreat as one call, for what ipq.get_threat answers if it
\* is asked: the value returned, the table and failed_ips after the call
get_ipthreat(tbl, failed, ip, answer) ==
    IF threat_lookup(tbl, failed, ip).at = "idle"
    THEN [ret |-> threat_lookup(tbl, failed, ip).ret, tbl |-> tbl,
          failed |-> failed]
    ELSE IF IsSome(answer)
         THEN [ret |-> answer, tbl |-> add_threat(tbl, ip, Unwrap(answer)),
               failed |-> failed]
         ELSE [ret |-> None, tbl |-> tbl, failed |-> Append(failed, ip)]

\* What ipdata.co can say of an address: any flags, on a blocklist or not
IpThreats ==
    {IpThreat(on, b) : on \in SUBSET ThreatFlags, b \in {<<>>, <<"firehol">>}}

ThreatInit ==
    /\ input \in [ip : {IpNewYork}, answer : {None} \cup {Some(t) : t \in IpThreats}]
    /\ output = None

\* what a call leaves behind
ThreatStep(n, first, r) ==
    /\ ipthreat' = r.tbl
    /\ failed_ips' = r.failed
    /\ output' = Some([calls |-> n,
                       first |-> IF n = 1 THEN r.ret ELSE first,
                       last |-> r.ret])
    /\ UNCHANGED <<input, lookups, calls, caller>>
    /\ UNCHANGED <<storageVars, vibeVars, duplexVars, lockVars>>

\* the first get_ipthreat(ip) of the session, on an empty cache
FirstThreatCall ==
    /\ output = None
    /\ ThreatStep(1, None,
                  get_ipthreat(ipthreat, failed_ips, input.ip, input.answer))

\* a later get_ipthreat(ip)
LaterThreatCall ==
    /\ IsSome(output)
    /\ Unwrap(output).calls = 1
    /\ ThreatStep(2, Unwrap(output).first,
                  get_ipthreat(ipthreat, failed_ips, input.ip, input.answer))

ThreatNext == FirstThreatCall \/ LaterThreatCall

ThreatOnlyInit ==
    StorageInit /\ VibeIdle /\ DuplexIdle /\ NoPopulation /\ ThreatInit
    /\ AccessIdle /\ LockIdle

ThreatSpec == ThreatOnlyInit /\ [][ThreatNext]_vars

----------------------------------------------------------------------------
(* Properties of the first vibe check, under VibeSpec                      *)

Checked == {account.logins[i] : i \in 1..account.checked_login_count}
NonSuccess == {i \in 1..account.checked_login_count :
                 account.logins[i].result # "Success"}
FraudCount == Cardinality({i \in 1..account.checked_login_count :
                             account.logins[i].result = "Fraud"})
DmpCount == Cardinality({i \in 1..account.checked_login_count :
                           /\ account.logins[i].integration = "Dmp"
                           /\ account.logins[i].result = "Failure"})
\* The distinct states of the checked logs that are not from a VPN address
StateSet == {Unwrap(account.logins[i].state) :
               i \in {j \in 1..account.checked_login_count :
                        /\ IsSome(account.logins[j].ip) =>
                              Unwrap(account.logins[j].ip) \notin VPN_IPS
                        /\ account.logins[j].state # None}}
HomeSets == {{"South Carolina"}, {"North Carolina"},
             {"South Carolina", "North Carolina"},
             {"South Carolina", "Georgia"}}
AllFlags == [i \in 1..Len(account.logins) |-> account.logins[i].flag_reasons]

\* C5: a first_vibe_check that follows another on the same account leaves
\* the account (score, reasons, the flags of every log) as the first call
\* left it and returns the same value.
C5_Pass1Idempotent ==
    [][(runs >= 1 /\ runs' = runs + 1) =>
          /\ ret' = ret
          /\ account'.score = account.score
          /\ account'.reasons = account.reasons
          /\ [i \in 1..Len(account'.logins) |-> account'.logins[i].flag_reasons]
               = AllFlags]_vars

\* The second call has run on an account the first call scored and flagged.
C5_Witness ==
    /\ runs = 2
    /\ account.score # 0
    /\ \E i \in 1..Len(account.logins) : Len(account.logins[i].flag_reasons) >= 2

\* The general part of C7: a call that reaches the scoring ends with
\* score = failures + 20 * fraud + 2 * dmp + floor(travel accumulator), with
\* each reason listed exactly when its count is positive, and returns true
\* exactly when no reason is listed.
C7_ScoreOfCounts ==
    ended = "scored" =>
        LET points == travel \div LogScale IN
        /\ account.score = failures(account) + 20 * FraudCount + 2 * DmpCount + points
        /\ account.reasons =
              (IF failures(account) > 0 THEN <<"Failure">> ELSE <<>>)
              \o (IF FraudCount > 0 THEN <<"Fraud">> ELSE <<>>)
              \o (IF points > 0 THEN <<"Travel">> ELSE <<>>)
              \o (IF DmpCount > 0 THEN <<"Dmp">> ELSE <<>>)
        /\ ret = Some(account.reasons = <<>>)

\* One Fraud log, every other checked log a Success, outside the home states
OneFraudElseSuccess ==
    /\ runs >= 1
    /\ FraudCount = 1
    /\ Cardinality(NonSuccess) = 1
    /\ StateSet \notin HomeSets

FraudOnlyOutcome ==
    /\ account.reasons = <<"Fraud">>
    /\ account.score = 20
    /\ ret = Some(FALSE)

\* C7 as stated: the general part, and every account with one Fraud log
\* and otherwise Success logs outside the home states ends with
\* reasons = [Fraud] and score = 20 and is kept.
C7_AsStated ==
    /\ C7_ScoreOfCounts
    /\ OneFraudElseSuccess => FraudOnlyOutcome

\* C7 as amended: the general part, and such an account ends with
\* reasons = [Fraud] and score = 20 and is kept when its logs earn no
\* impossible-travel points.
C7_ScoreReasonsAndDrop ==
    /\ C7_ScoreOfCounts
    /\ (OneFraudElseSuccess /\ travel \div LogScale = 0) => FraudOnlyOutcome

\* A scored account with all four reasons.
C7_Witness ==
    /\ ended = "scored"
    /\ account.reasons = <<"Failure", "Fraud", "Travel", "Dmp">>

\* C8: an account with a non-Success checked log is dropped by the home
\* state exit, with score 0 and no reasons, when the states of its non-VPN
\* checked logs are exactly one of the four home sets, whatever its
\* failures; with any other set of states it reaches the scoring.
C8_HomeStateExemption ==
    (runs >= 1 /\ NonSuccess # {}) =>
        IF StateSet \in HomeSets
        THEN /\ ended = "in_state"
             /\ ret = Some(TRUE)
             /\ account.score = 0
             /\ account.reasons = <<>>
        ELSE ended = "scored"

\* Two failures from South and North Carolina: dropped.
C8_Witness ==
    /\ ended = "in_state"
    /\ StateSet = {"South Carolina", "North Carolina"}
    /\ Cardinality({i \in 1..account.checked_login_count :
                      account.logins[i].result = "Failure"}) >= 2

\* The one Fraud log of C7 with no travel: kept with score 20.
C7_FraudOnlyReached ==
    /\ OneFraudElseSuccess
    /\ ended = "scored"
    /\ travel = 0
    /\ FraudOnlyOutcome

\* The logs impossible_travel compares, as C9 lists them
EligibleByClaim(login) ==
    /\ login.location # None
    /\ login.ip # None =>
          LET ip == Unwrap(login.ip) IN
          /\ ip \notin VPN_IPS
          /\ ~(is_private(ip) \/ is_loopback(ip) \/ is_link_local(ip)
               \/ is_multicast(ip) \/ is_broadcast(ip)
               \/ is_documentation(ip) \/ is_unspecified(ip))
    /\ ~login.is_relay
    /\ login.integration # "Linux"

EligibleIdx ==
    FilterIdx(1, account.checked_login_count,
              {i \in 1..account.checked_login_count :
                 EligibleByClaim(account.logins[i])})

\* The k-th pair of time-adjacent eligible logs: its distance in metres
\* and the seconds between its logs
PairMetres(k) ==
    haversine_distance(Unwrap(account.logins[EligibleIdx[k]].location),
                       Unwrap(account.logins[EligibleIdx[k + 1]].location))
PairSeconds(k) ==
    Abs(account.logins[EligibleIdx[k + 1]].time - account.logins[EligibleIdx[k]].time)
Pairs == 1..(Len(EligibleIdx) - 1)

CapAt15(l) == IF l < 15 * LogScale THEN l ELSE 15 * LogScale

\* The speed of the elapsed time: distance / elapsed hours
ElapsedSpeedAtLeast1000(k) ==
    PairSeconds(k) = 0 \/ PairMetres(k) * 36 >= 10000 * PairSeconds(k)
ElapsedSpeedPoints(k) ==
    IF PairSeconds(k) = 0 THEN 15 * LogScale
    ELSE CapAt15(Log2Fx(((PairMetres(k) \div 5) * 288) \div PairSeconds(k)))

\* The speed of the whole minutes elapsed: distance / (minutes / 60)
MinuteSpeedAtLeast1000(k) ==
    LET m == PairSeconds(k) \div 60 IN
    m = 0 \/ PairMetres(k) * 3 >= 50000 * m
MinuteSpeedPoints(k) ==
    LET m == PairSeconds(k) \div 60 IN
    IF m = 0 THEN 15 * LogScale
    ELSE CapAt15(Log2Fx((PairMetres(k) * 48) \div (50 * m)))

RECURSIVE SumOver(_, _)
SumOver(S, f) ==
    IF S = {} THEN 0
    ELSE LET x == CHOOSE y \in S : TRUE IN f[x] + SumOver(S \ {x}, f)

TravelFlags(i) ==
    Cardinality({n \in 1..Len(account.logins[i].flag_reasons) :
                   account.logins[i].flag_reasons[n] = "Travel"})

\* Whether the last call evaluated impossible_travel
TravelEvaluated == ended = "scored" /\ impossible_travel_precheck(account)

\* What C9 demands of an evaluation, for a given reading of the speed: a
\* pair is flagged when it is at least 250 km apart and at 1000 kph or
\* more, the accumulator is the sum of min(log2(speed), 15) over the flagged
\* pairs, and every log carries one Travel flag for each flagged pair it
\* belongs to.
TravelAsClaimed(fast, points) ==
    LET flagged == {k \in Pairs : PairMetres(k) >= 250000 /\ fast[k]} IN
    /\ travel = SumOver(flagged, points)
    /\ \A i \in 1..Len(account.logins) :
          TravelFlags(i) =
              Cardinality({k \in flagged :
                             i = EligibleIdx[k] \/ i = EligibleIdx[k + 1]})

\* C9 as stated: the speed of a pair is its distance over the time elapsed
\* between its logs.
C9_AsStated ==
    TravelEvaluated =>
        TravelAsClaimed([k \in Pairs |-> ElapsedSpeedAtLeast1000(k)],
                        [k \in Pairs |-> ElapsedSpeedPoints(k)])

\* C9 as amended: the speed of a pair is its distance over the whole
\* minutes elapsed between its logs (seconds are dropped).
C9_TravelPairs ==
    TravelEvaluated =>
        TravelAsClaimed([k \in Pairs |-> MinuteSpeedAtLeast1000(k)],
                        [k \in Pairs |-> MinuteSpeedPoints(k)])

\* An evaluation with a pair under 250 km (nothing), a pair over 250 km
\* under 1000 kph (nothing), and a capped pair (15 points, both flagged).
C9_Witness ==
    /\ TravelEvaluated
    /\ \E k \in Pairs : PairMetres(k) > 0 /\ PairMetres(k) < 250000
    /\ \E k \in Pairs : /\ PairMetres(k) >= 250000
                        /\ MinuteSpeedAtLeast1000(k)
                        /\ MinuteSpeedPoints(k) = 15 * LogScale
                        /\ TravelFlags(EligibleIdx[k]) >= 1
                        /\ TravelFlags(EligibleIdx[k + 1]) >= 1
    /\ travel = 15 * LogScale


----------------------------------------------------------------------------
(* Properties of the cache, under StorageSpec                              *)

\* C3: investigated(name) is true iff investigated_users holds a row for
\* name and now - the time of the row < 24 h.  A row of time T reads true
\* at every time of [T, T + 24 h) and false from T + 24 h on, and the clock
\* alone makes it expire: no write takes part.
C3_InvestigatedWindow ==
    \A n \in Names :
        LET answer == investigated(investigated_users, now, n) IN
        /\ n \notin DOMAIN investigated_users => ~answer
        /\ n \in DOMAIN investigated_users =>
              LET T == investigated_users[n] IN
              /\ (T <= now /\ now < T + 86400) => answer
              /\ now >= T + 86400 => ~answer

\* A row that is exactly 24 h old and reads false.
C3_Witness ==
    \E n \in DOMAIN investigated_users :
        /\ now = investigated_users[n] + 86400
        /\ ~investigated(investigated_users, now, n)

\* A row that is 23 h 59 min old and reads true.
C3_LiveReached ==
    \E n \in DOMAIN investigated_users :
        /\ now = investigated_users[n] + 86340
        /\ investigated(investigated_users, now, n)

\* C4: after mark_investigated(name, true) at time T, whatever the table
\* held for name, investigated(name) is true at every time of
\* [T, T + 24 h) until the name is un-marked.  markedAt[name] is the T of
\* the latest such call.
C4_AsStated ==
    \A n \in DOMAIN markedAt :
        (n \notin unmarkedSince /\ now < markedAt[n] + 86400)
            => investigated(investigated_users, now, n)

\* The state C4 fails in: the row of the name is older than the latest
\* mark_investigated(name, true), because the INSERT of that call failed.
C4_StaleRow ==
    \E n \in DOMAIN markedAt \ unmarkedSince :
        /\ n \in DOMAIN investigated_users
        /\ investigated_users[n] < markedAt[n]

\* C10: after set_username(v) get_username() returns v, and after
\* set_analyst_name(v) get_analyst_name() returns v, in every state of the
\* cache.  lastSet[key] is the v of the latest set call of the key.
C10_AsStated ==
    \A k \in DOMAIN lastSet : get_misc(misc, k) = lastSet[k]

\* What the code does instead: no call ever writes a row of misc.
C10_MiscStaysEmpty == misc = <<>>


----------------------------------------------------------------------------
(* Properties of run_duplex, under DuplexSpec                              *)

ReturnedNames == {returned[i].name : i \in 1..Len(returned)}

\* C1: the list run_duplex returns is ranked by fraud count descending and,
\* among equal fraud counts, by score descending: for a listed before b,
\* fraud(a) > fraud(b), or fraud(a) = fraud(b) and score(a) >= score(b).
C1_Ranked ==
    pc = "done" =>
        \A i \in 1..Len(returned) : \A j \in 1..Len(returned) :
            i < j =>
                \/ fraud(returned[i]) > fraud(returned[j])
                \/ /\ fraud(returned[i]) = fraud(returned[j])
                   /\ returned[i].score >= returned[j].score

\* Two accounts are returned and the first has the lower score: the fraud
\* count, not the score, has put it first.
C1_Witness ==
    /\ pc = "done"
    /\ Len(returned) = 2
    /\ fraud(returned[1]) > fraud(returned[2])
    /\ returned[1].score < returned[2].score

\* Two accounts of equal fraud count are returned, ordered by score.
C1_TieReached ==
    /\ pc = "done"
    /\ Len(returned) = 2
    /\ fraud(returned[1]) = fraud(returned[2])
    /\ returned[1].score > returned[2].score

\* C2: an account the analyst has ignored at time T, and not un-ignored, is
\* not in the result of a run whose pass-1 or pass-3 investigated check for
\* it happens in [T, T + 24 h); and no account for which investigated(name)
\* is true at its pass-1 or pass-3 check is returned.
C2_AsStated ==
    pc = "done" =>
        \A n \in ReturnedNames :
            /\ checks[n].ign1 # Some(TRUE)
            /\ checks[n].ign3 # Some(TRUE)
            /\ checks[n].inv1 # Some(TRUE)
            /\ checks[n].inv3 # Some(TRUE)

\* The half of C2 the code keeps: what investigated() answers true for at a
\* check is not returned.
C2_InvestigatedNotReturned ==
    pc = "done" =>
        \A n \in ReturnedNames :
            /\ checks[n].inv1 # Some(TRUE)
            /\ checks[n].inv3 # Some(TRUE)

\* An account dropped by the marker alone: the first vibe check keeps it and
\* investigated() is true.
C2_DroppedByMarker ==
    \E k \in 1..Len(events) :
        /\ events[k].pass = 3
        /\ ~events[k].kept
        /\ checks[events[k].name].inv3 = Some(TRUE)
        /\ checks[events[k].name].inv1 = Some(FALSE)

EventsOf(p) == {k \in 1..Len(events) : events[k].pass = p}
Evaluated(p) == {events[k].name : k \in EventsOf(p)}
KeptBy(p) == {events[k].name : k \in {e \in EventsOf(p) : events[e].kept}}

\* no pass evaluates an account twice, and the events of the passes come
\* in the order 1, 2, 3
PassesInOrder ==
    /\ \A k \in 1..Len(events) : \A l \in 1..Len(events) :
          /\ (k < l => events[k].pass <= events[l].pass)
          /\ (k # l /\ events[k].pass = events[l].pass
                => events[k].name # events[l].name)

\* C6 as stated: every account pass 3 evaluates has been kept
\* by pass 2 before, an account a pass has dropped is not evaluated by a
\* later pass, and the result is what the three passes have all kept.
C6_AsStated ==
    /\ PassesInOrder
    /\ Evaluated(2) \subseteq KeptBy(1)
    /\ Evaluated(3) \subseteq KeptBy(2)
    /\ (pc = "done" =>
          ReturnedNames = KeptBy(1) \cap KeptBy(2) \cap KeptBy(3))

\* the accounts pass 3 iterates over carry what pass 2 has populated: the
\* creation date of the HDTools row of the name, or nothing where pass 2
\* has not run or HDTools has no answer
MetadataBeforePass3 ==
    pc = "pass3" =>
        \A k \in 1..Len(users) :
            IF hdtools_on
            THEN (users[k].creation_date # None
                    <=> users[k].name \in DOMAIN hdtools)
            ELSE users[k].creation_date = None /\ users[k].location = None

\* C6: with HDTools configured every account moves through pass 1, pass 2,
\* pass 3 in this order, pass 2 and its metadata being complete before
\* pass 3 starts; with no HDTools session pass 2 is not run and the
\* accounts pass 1 keeps go to pass 3 without metadata.  An account a pass
\* drops is not evaluated again, and the result is exactly what every pass
\* that ran has kept.
C6_Pipeline ==
    /\ PassesInOrder
    /\ Evaluated(2) \subseteq KeptBy(1)
    /\ Evaluated(3) \subseteq (IF hdtools_on THEN KeptBy(2) ELSE KeptBy(1))
    /\ (~hdtools_on => Evaluated(2) = {})
    /\ MetadataBeforePass3
    /\ (pc = "done" =>
          ReturnedNames = KeptBy(1) \cap KeptBy(3)
                            \cap (IF hdtools_on THEN KeptBy(2) ELSE Names))

\* A run with HDTools in which each pass has dropped or kept an account and
\* one account is returned.
C6_Witness ==
    /\ pc = "done"
    /\ hdtools_on
    /\ Evaluated(3) # {}
    /\ KeptBy(2) # Evaluated(2)
    /\ returned # <<>>

\* A run without HDTools that returns an account no pass 2 has seen.
C6_SkippedReached ==
    /\ pc = "done"
    /\ ~hdtools_on
    /\ returned # <<>>
    /\ Evaluated(2) = {}


----------------------------------------------------------------------------
(* Properties of Storage::load, under LoadSpec                             *)

\* C11: after Storage::load all five tables exist with the full expected
\* schema: a store on disk that lacks an expected table or column, or has
\* a column of an unexpected name or type, is discarded and rebuilt empty.
C11_AsStated ==
    IsSome(output) =>
        /\ Unwrap(output).db = CHECK_DB
        /\ (IsSome(input) /\ Unwrap(input) # CHECK_DB
              => ~Unwrap(output).rows_kept)

\* What the check does catch: a store with a column of an unexpected name
\* or type is rebuilt with the expected schema.
C11_UnexpectedColumnRebuilt ==
    (IsSome(output) /\ IsSome(input)
       /\ \E t \in DOMAIN Unwrap(input) :
              ~(Unwrap(input)[t] \subseteq CHECK_DB[t]))
        => Unwrap(output) = [db |-> CHECK_DB, rows_kept |-> FALSE]

\* A store without the misc table is loaded as it is.
C11_MissingTableKept ==
    /\ IsSome(output)
    /\ "misc" \notin DOMAIN Unwrap(output).db
    /\ Unwrap(output).rows_kept

----------------------------------------------------------------------------
(* Properties of the lookups of addresses, under AccessSpec                *)

\* the requests the step at hand adds to the history
NewLookups == {lookups'[i] : i \in (DOMAIN lookups') \ (DOMAIN lookups)}

\* the table a fact is cached in
CacheOf(fact) == IF fact = "threat" THEN ipthreat ELSE ipinfo

\* no request for a fact of an address follows a request for it that was
\* answered
NoFetchAfterAnswer ==
    \A i, j \in DOMAIN lookups :
        (i < j /\ lookups[i].fact = lookups[j].fact
               /\ lookups[i].ip = lookups[j].ip) => ~lookups[i].ok

\* an INSERT for an address that has a row leaves the table as it is
ReinsertFails ==
    /\ \A ip \in DOMAIN ipthreat : \A a \in ThreatAnswers \ {None} :
           add_threat(ipthreat, ip, Unwrap(a)) = ipthreat
    /\ \A ip \in DOMAIN ipinfo : \A other \in {IpNewYork, IpBeijing, IpClemson} :
           add_ipinfo(ipinfo, ip, IpInfoOf(other)) = ipinfo

\* no step asks outside for a fact the cache holds, and no step changes or
\* removes a row of ipthreat or ipinfo
CachedStays ==
    /\ \A e \in NewLookups : e.ip \notin DOMAIN CacheOf(e.fact)
    /\ \A ip \in DOMAIN ipthreat :
           ip \in DOMAIN ipthreat' /\ ipthreat'[ip] = ipthreat[ip]
    /\ \A ip \in DOMAIN ipinfo :
           ip \in DOMAIN ipinfo' /\ ipinfo'[ip] = ipinfo[ip]

\* C12: once a threat record (get_ipthreat) or a geoinfo record (pass 3) is
\* cached for an address, no later lookup of that fact for that address asks
\* the service outside, no later step changes the cached row, and an insert
\* for an address that already has a row leaves the row as it was.
C12_CacheFirstImmutable ==
    /\ [](NoFetchAfterAnswer /\ ReinsertFails)
    /\ [][CachedStays]_vars

\* a second get_ipthreat for an address has returned the cached row without
\* a second request, and pass 3 has met an address twice in one account
\* and asked for it once
C12_Witness ==
    /\ calls >= 2
    /\ caller.at = "idle"
    /\ IsSome(caller.ret)
    /\ caller.ret = get_threat(ipthreat, caller.ip)
    /\ Cardinality({i \in DOMAIN lookups : lookups[i].fact = "threat"
                                           /\ lookups[i].ip = caller.ip}) = 1
    /\ Cardinality({i \in DOMAIN lookups : lookups[i].fact = "threat"}) = 1
    /\ pc = "done"
    /\ Cardinality({i \in DOMAIN lookups : lookups[i].fact = "info"
                                           /\ lookups[i].ip = IpNewYork}) = 1
    /\ IpNewYork \in DOMAIN ipinfo
    /\ \E n \in Names : \E i, j \in DOMAIN population[n] :
           /\ i < j
           /\ population[n][i].ip = Some(IpNewYork)
           /\ population[n][j].ip = Some(IpNewYork)

\* C13: once a lookup outside (threat or geoinfo) of an address has failed,
\* the address is remembered in the failed set and no further lookup
\* outside of that fact for it is attempted during the run, and the failure
\* leaves no row in the cache.
C13_AsStated ==
    /\ \A i, j \in DOMAIN lookups :
           (i < j /\ lookups[i].fact = lookups[j].fact
                  /\ lookups[i].ip = lookups[j].ip) => lookups[i].ok
    /\ \A i \in DOMAIN lookups :
           ~lookups[i].ok =>
               /\ Contains(failed_ips, lookups[i].ip)
               /\ lookups[i].ip \notin DOMAIN CacheOf(lookups[i].fact)

\* the part of C13 that get_ipthreat keeps: a failed threat lookup puts the
\* address on failed_ips, is never repeated and leaves no row in ipthreat
C13_ThreatFailureRemembered ==
    /\ \A i, j \in DOMAIN lookups :
           (i < j /\ lookups[i].fact = "threat" /\ lookups[j].fact = "threat"
                  /\ lookups[i].ip = lookups[j].ip) => lookups[i].ok
    /\ \A i \in DOMAIN lookups :
           (lookups[i].fact = "threat" /\ ~lookups[i].ok) =>
               /\ Contains(failed_ips, lookups[i].ip)
               /\ lookups[i].ip \notin DOMAIN ipthreat

\* pass 3 has asked ipinfo.io twice for the address of one account, and
\* both requests failed
C13_GeoFailureRepeated ==
    \E i, j \in DOMAIN lookups :
        /\ i < j
        /\ lookups[i].fact = "info" /\ lookups[j].fact = "info"
        /\ lookups[i].ip = lookups[j].ip
        /\ ~lookups[i].ok /\ ~lookups[j].ok

----------------------------------------------------------------------------
(* Properties of Store.progress, under DuplexSpec                          *)

\* C18: in every reachable state of a run_duplex run, whatever the number
\* of accounts that survive pass 1 and pass 2, the value Store::progress
\* returns lies in 0.0..=1.0.
C18_AsStated ==
    /\ 0 <= progress.num
    /\ progress.num <= progress.den

\* what holds of the value: it is never negative, it is at most one half
\* until the third pass has started, and at most 3/2 afterwards
C18_ProgressBounds ==
    /\ 0 <= progress.num
    /\ progress.den > 0
    /\ pc # "pass3" /\ pc # "done" => 2 * progress.num <= progress.den
    /\ 2 * progress.num <= 3 * progress.den

\* the third pass is at its second account of two, and the value is 3/2
C18_AboveOne ==
    /\ pc = "pass3"
    /\ Len(users) = 2
    /\ progress = [num |-> 3, den |-> 2]

----------------------------------------------------------------------------
(* Properties of correlate_vpn_logs, under CorrelateSpec                   *)

\* the i-th record of the list correlates with the record after it: same
\* source address, or both carry a MAC and the MACs are equal
CorrelatesNext(v, i) ==
    /\ i < Len(v)
    /\ \/ v[i].source_ip = v[i + 1].source_ip
       \/ /\ IsSome(v[i].dev_mac)
          /\ IsSome(v[i + 1].dev_mac)
          /\ Unwrap(v[i].dev_mac) = Unwrap(v[i + 1].dev_mac)

\* C14: correlate_vpn_logs marks record i-1 exactly when it and record i
\* have the same source address or both have a MAC and the MACs are equal;
\* the last record is never marked, nothing else of a record changes, and
\* lists of length 0 or 1 are left as they are.
C14_Correlation ==
    IsSome(output) =>
        LET out == Unwrap(output) IN
        /\ Len(out) = Len(input)
        /\ \A i \in 1..Len(input) :
              /\ out[i].correlate_prev = CorrelatesNext(input, i)
              /\ [out[i] EXCEPT !.correlate_prev = FALSE] = input[i]
        /\ Len(input) > 0 => ~out[Len(out)].correlate_prev
        /\ Len(input) <= 1 => out = input

\* a list of three was correlated: the first pair has equal MACs and
\* different sources, the second pair has no MAC and different sources
C14_Witness ==
    /\ IsSome(output)
    /\ Len(input) = 3
    /\ input[1].source_ip # input[2].source_ip
    /\ IsSome(input[1].dev_mac) /\ input[1].dev_mac = input[2].dev_mac
    /\ input[2].source_ip # input[3].source_ip
    /\ ~IsSome(input[3].dev_mac)
    /\ Unwrap(output)[1].correlate_prev
    /\ ~Unwrap(output)[2].correlate_prev

----------------------------------------------------------------------------
(* Properties of VpnLog::new, under VpnParseSpec                           *)

LowerHex ==
    {"0", "1", "2", "3", "4", "5", "6", "7", "8", "9",
     "a", "b", "c", "d", "e", "f"}

\* lowercase hex pairs with a colon between them
ColonForm(mac) ==
    /\ Len(mac) = 17
    /\ \A i \in 1..17 : IF i % 3 = 0 THEN mac[i] = ":" ELSE mac[i] \in LowerHex

\* the text with every hyphen written as a colon
WithColons(text) == [i \in DOMAIN text |-> IF text[i] = "-" THEN ":" ELSE text[i]]

\* the line has the four mandatory keys of the claim, with values that parse
HasMandatory(line) ==
    /\ IsSome(line._time) /\ Unwrap(line._time).in_format
    /\ IsSome(line.Framed_IP_Address)
    /\ IsSome(parse_ip(Unwrap(line.Framed_IP_Address)))
    /\ IsSome(line.Calling_Station_ID)
    /\ IsSome(parse_ip(Unwrap(line.Calling_Station_ID)))
    /\ IsSome(line.device_platform)
    /\ IsSome(line.user_agent)

\* C17: every record of VpnLog::new that carries a MAC holds it in
\* lowercase colon-separated form, so two lines that report one device with
\* different separators yield equal MACs and correlate; a line without a
\* MAC still parses, a line without the VPN address, the source address,
\* the platform or the user agent is rejected.
C17_AsStated ==
    IsSome(output) =>
        LET out == Unwrap(output) IN
        /\ \A k \in 1..2 :
              /\ IsSome(out[k]) = HasMandatory(input[k])
              /\ IsSome(out[k]) /\ IsSome(Unwrap(out[k]).dev_mac) =>
                     ColonForm(Unwrap(Unwrap(out[k]).dev_mac))
              /\ IsSome(out[k]) /\ ~IsSome(input[k].device_mac) =>
                     ~IsSome(Unwrap(out[k]).dev_mac)
        /\ ( /\ IsSome(out[1]) /\ IsSome(out[2])
             /\ IsSome(input[1].device_mac) /\ IsSome(input[2].device_mac)
             /\ ColonForm(WithColons(Unwrap(input[1].device_mac)))
             /\ WithColons(Unwrap(input[1].device_mac))
                    = WithColons(Unwrap(input[2].device_mac)) )
           => /\ Unwrap(out[1]).dev_mac = Unwrap(out[2]).dev_mac
              /\ correlates(Unwrap(out[1]), Unwrap(out[2]))

\* what VpnLog::new does: a line is parsed iff its mandatory keys are there
\* and parse, and the MAC is the text as the line writes it when the text
\* is of lowercase hex digits, hyphens and colons, None otherwise
C17_MacAsWritten ==
    IsSome(output) =>
        \A k \in 1..2 :
            LET text == input[k].device_mac
                written == /\ IsSome(text)
                           /\ \A i \in 1..17 : Unwrap(text)[i] \in MacClass
            IN /\ IsSome(Unwrap(output)[k]) = HasMandatory(input[k])
               /\ IsSome(Unwrap(output)[k]) =>
                      Unwrap(Unwrap(output)[k]).dev_mac
                          = IF written THEN text ELSE None

\* two complete lines from different sources report one device, one with
\* colons and one with hyphens: the MACs differ and the records do not
\* correlate
C17_HyphenKept ==
    /\ IsSome(output)
    /\ IsSome(Unwrap(output)[1]) /\ IsSome(Unwrap(output)[2])
    /\ input[1].device_mac = Some(Mac("a", ":"))
    /\ input[2].device_mac = Some(Mac("a", "-"))
    /\ Unwrap(Unwrap(output)[2]).dev_mac = Some(Mac("a", "-"))
    /\ ~correlates(Unwrap(Unwrap(output)[1]), Unwrap(Unwrap(output)[2]))

----------------------------------------------------------------------------
(* Properties of the range lookups, under RangeSpec                        *)

\* the rows of a table that hold the address
RowsWith(db, ip) ==
    {i \in DOMAIN db : db[i].lower <= to_u32(ip) /\ to_u32(ip) <= db[i].upper}

\* C15: in a table sorted by lower bound with rows that do not overlap,
\* get_iploc(ip) returns the one row with lower <= ip <= upper when there
\* is one and None when ip lies outside every row (below the first, above
\* the last, in a gap); is_proxy(ip) is true iff the proxy table has such
\* a row, and get_asn returns the ASN of that row.
C15_RangeLookup ==
    IsSome(output) =>
        LET ipdb == input.ipdb
            ip == input.ip
            out == Unwrap(output)
        IN /\ Cardinality(RowsWith(ipdb.iploc_db, ip)) <= 1
           /\ \A i \in RowsWith(ipdb.iploc_db, ip) :
                  out.iploc = Some(ipdb.iploc_db[i])
           /\ RowsWith(ipdb.iploc_db, ip) = {} => out.iploc = None
           /\ out.proxy = (RowsWith(ipdb.proxy_db, ip) # {})
           /\ \A i \in RowsWith(ipdb.asn_db, ip) : out.asn = ipdb.asn_db[i].asn
           /\ RowsWith(ipdb.asn_db, ip) = {} => out.asn = None

\* an address at the upper bound of the last of three rows was found, in
\* a table with a gap before that row
C15_Witness ==
    /\ IsSome(output)
    /\ Len(input.ipdb.iploc_db) = 3
    /\ to_u32(input.ip) = input.ipdb.iploc_db[3].upper
    /\ input.ipdb.iploc_db[3].lower < input.ipdb.iploc_db[3].upper
    /\ input.ipdb.iploc_db[2].upper + 1 < input.ipdb.iploc_db[3].lower
    /\ Unwrap(output).iploc = Some(input.ipdb.iploc_db[3])
    /\ Unwrap(output).proxy
    /\ Unwrap(output).asn = Some(3)

\* an address in the gap between two rows was looked up and not found
C15_GapReached ==
    /\ IsSome(output)
    /\ Len(input.ipdb.iploc_db) >= 2
    /\ input.ipdb.iploc_db[1].upper < to_u32(input.ip)
    /\ to_u32(input.ip) < input.ipdb.iploc_db[2].lower
    /\ Unwrap(output).iploc = None
    /\ ~Unwrap(output).proxy

----------------------------------------------------------------------------
(* Properties of Login::new, under LoginParseSpec                          *)

\* char::is_whitespace, on the characters of the inputs
Whitespace == {" ", "NBSP"}

HasWhitespace(text) == \E i \in DOMAIN text : text[i] \in Whitespace

TimeParses(obj) ==
    /\ IsSome(obj._time)
    /\ Unwrap(obj._time).in_format
    /\ Unwrap(obj._time).local = "single"

\* the record has the default of every key the line lacks, and no
\* enrichment when no address was extracted
DefaultsOf(obj, login) ==
    /\ ~IsSome(obj.device) => login.device = None
    /\ ~IsSome(obj.factor) => login.factor = "None"
    /\ ~IsSome(obj.integration) => login.integration = <<"None">>
    /\ ~IsSome(obj.reason) => login.reason = <<"None">>
    /\ ~IsSome(obj.result) => login.result = <<"None">>
    /\ ~IsSome(obj.ip) => login.ip = None
    /\ ~IsSome(login.ip) =>
           /\ login.location = None /\ login.city = None
           /\ login.state = None /\ login.country = None
           /\ ~login.is_relay
           /\ login.asn = None

\* C16 as stated: Login::new returns None iff the account name is absent,
\* contains whitespace or equals "System", or the time is absent or does
\* not parse; otherwise a record with the defaults of the absent keys and
\* without enrichment when no address was extracted.
C16_AsStated ==
    IsSome(output) =>
        LET rejected ==
                \/ ~IsSome(input.user)
                \/ HasWhitespace(Unwrap(input.user))
                \/ Unwrap(input.user) = System
                \/ ~TimeParses(input)
        IN /\ (Unwrap(output) = None) = rejected
           /\ IsSome(Unwrap(output)) => DefaultsOf(input, Unwrap(Unwrap(output)))

\* C16: Login::new returns None iff the account name is absent or empty,
\* contains the space character or equals "System", or the time is absent
\* or does not parse to one local time; otherwise a record with the
\* defaults of the absent keys and without enrichment when no address was
\* extracted.
C16_ParseRule ==
    IsSome(output) =>
        LET rejected ==
                \/ ~IsSome(input.user)
                \/ StripBackslash(Unwrap(input.user)) = <<>>
                \/ \E i \in DOMAIN Unwrap(input.user) : Unwrap(input.user)[i] = " "
                \/ StripBackslash(Unwrap(input.user)) = System
                \/ ~TimeParses(input)
        IN /\ (Unwrap(output) = None) = rejected
           /\ IsSome(Unwrap(output)) => DefaultsOf(input, Unwrap(Unwrap(output)))

\* a line with a plain name, a good time and no other key was parsed to a
\* record of defaults
C16_Witness ==
    /\ IsSome(output)
    /\ input.user = Some(Alice)
    /\ input.ip = None /\ input.device = None /\ input.factor = None
    /\ input.integration = None /\ input.reason = None /\ input.result = None
    /\ IsSome(Unwrap(output))
    /\ Unwrap(Unwrap(output)).user = Alice
    /\ Unwrap(Unwrap(output)).ip = None
    /\ Unwrap(Unwrap(output)).result = <<"None">>

\* a name with a no-break space was accepted
C16_OtherWhitespaceAccepted ==
    /\ IsSome(output)
    /\ IsSome(input.user)
    /\ Contains(Unwrap(input.user), "NBSP")
    /\ IsSome(Unwrap(output))

----------------------------------------------------------------------------
(* Properties of the list get_logins returns, under GetLoginsSpec          *)

Descending(v) == \A i \in 1..(Len(v) - 1) : v[i].time >= v[i + 1].time

\* C20: the list built by sort, then dedup, is in descending order of time
\* and holds no two records with the same time and the same account,
\* whatever records were parsed, records of different accounts that share
\* a time included.
C20_AsStated ==
    IsSome(output) =>
        /\ Descending(Unwrap(output))
        /\ \A i, j \in DOMAIN Unwrap(output) :
               i < j => ~login_eq(Unwrap(output)[i], Unwrap(output)[j])

\* what sort, then dedup, gives: a list in descending order of time, with
\* the records of the input and no others, in which no two neighbours
\* are equal
C20_NeighboursDistinct ==
    IsSome(output) =>
        LET out == Unwrap(output) IN
        /\ Descending(out)
        /\ {out[i] : i \in DOMAIN out} = {input[i] : i \in DOMAIN input}
        /\ \A i \in 1..(Len(out) - 1) : ~login_eq(out[i], out[i + 1])

\* two equal records were returned, with a record of another account and
\* the same time between them
C20_DuplicateKept ==
    /\ IsSome(output)
    /\ Len(Unwrap(output)) = 3
    /\ login_eq(Unwrap(output)[1], Unwrap(output)[3])
    /\ Unwrap(output)[1].time = Unwrap(output)[2].time
    /\ Unwrap(output)[1].user # Unwrap(output)[2].user

----------------------------------------------------------------------------
(* Properties of the Mutex of the storage, under LockFairSpec              *)

\* the threads that are inside a read or write of the Storage
Inside ==
    (IF pc \in {"pass1", "pass2", "pass3"} THEN {"run_duplex"} ELSE {})
    \cup (IF simplex = "held" THEN {"run_simplex"} ELSE {})
    \cup (IF caller.at \in {"in_mark", "in_get", "in_add"} THEN {"caller"}
          ELSE {})

\* at most one thread is inside the Storage, and it holds the Mutex
Exclusive ==
    /\ Cardinality(Inside) <= 1
    /\ \A t \in Inside : lock = t
    /\ Inside = {} => lock = "free"

\* failed_ips is read and written by a thread that does not hold the
\* Mutex of the storage
LocksApart ==
    /\ caller.at \in {"check_failed", "fetch"} => lock # "caller"
    /\ [][failed_ips' # failed_ips => lock # "caller" /\ lock' # "caller"]_vars

----------------------------------------------------------------------------
(* Properties of the counts and verdicts of an account, under AccountSpec  *)

\* Log j of the account is more recent than log i: later in time, or of the
\* same second and listed first
MoreRecent(j, i) ==
    \/ input.logins[j].time > input.logins[i].time
    \/ input.logins[j].time = input.logins[i].time /\ j < i

\* Log j is a Success of the integration and the address of log i
Matches(j, i) ==
    /\ input.logins[j].result = "Success"
    /\ input.logins[j].integration = input.logins[i].integration
    /\ input.logins[j].ip = input.logins[i].ip

\* A more recent matching Success at most 30 minutes after log i
Excused(i) ==
    \E j \in 1..Len(input.logins) :
        /\ Matches(j, i)
        /\ MoreRecent(j, i)
        /\ input.logins[j].time - input.logins[i].time <= 30 * 60

CheckedFailures ==
    {i \in 1..input.checked_login_count : input.logins[i].result = "Failure"}

\* C21: failures() is the number of checked Failure logs for which there is
\* no more recent Success of the same integration and address at most 30
\* minutes after the failure; an older Success, one more than 30 minutes
\* later, or one of another integration or address excuses nothing.
C21_Failures ==
    IsSome(output) =>
        Unwrap(output).failures =
            Cardinality({i \in CheckedFailures : ~Excused(i)})

\* One list with a failure excused by a Success exactly 30 minutes later and
\* a failure counted although an older matching Success follows it.
C21_Witness ==
    /\ IsSome(output)
    /\ Unwrap(output).failures = 1
    /\ \E i \in CheckedFailures :
          \E j \in 1..Len(input.logins) :
              /\ Matches(j, i)
              /\ input.logins[j].time - input.logins[i].time = 30 * 60
    /\ \E i \in CheckedFailures :
          /\ ~Excused(i)
          /\ \E j \in 1..Len(input.logins) :
                Matches(j, i) /\ input.logins[j].time < input.logins[i].time

\* The checked logs of the account that are not from a VPN address
NonVpnChecked ==
    {i \in 1..input.checked_login_count :
        IsSome(input.logins[i].ip) => Unwrap(input.logins[i].ip) \notin VPN_IPS}

CountriesSeen ==
    {Unwrap(input.logins[i].country) :
        i \in {j \in NonVpnChecked : input.logins[j].country # None}}
StatesSeen ==
    {Unwrap(input.logins[i].state) :
        i \in {j \in NonVpnChecked : input.logins[j].state # None}}

\* The logs the first vibe check has flagged for travel
TravelFlagged ==
    {i \in 1..Len(input.logins) :
        \E n \in 1..Len(Unwrap(output).first.user.logins[i].flag_reasons) :
            Unwrap(output).first.user.logins[i].flag_reasons[n] = "Travel"}

\* impossible_travel has not run in the first vibe check
TravelSkipped == Unwrap(output).first.acc = 0 /\ TravelFlagged = {}

\* C22: impossible travel is evaluated only when the precheck holds, and
\* impossible_travel_precheck is true iff the non-VPN checked logs name more
\* than one country or at least two states, in whatever order they come and
\* whether or not a log that has a country has a state.
C22_AsStated ==
    IsSome(output) =>
        /\ Unwrap(output).precheck =
              (Cardinality(CountriesSeen) > 1 \/ Cardinality(StatesSeen) >= 2)
        /\ ~Unwrap(output).precheck => TravelSkipped

\* The logs that have both a state and a country
BothKnown ==
    {i \in NonVpnChecked :
        input.logins[i].country # None /\ input.logins[i].state # None}

\* What holds: the precheck counts the countries and the states of the
\* non-VPN checked logs that have both, and travel is evaluated only when
\* it is true.
C22_PrecheckOfPairedLogs ==
    IsSome(output) =>
        /\ Unwrap(output).precheck =
              \/ Cardinality({Unwrap(input.logins[i].country) : i \in BothKnown}) > 1
              \/ Cardinality({Unwrap(input.logins[i].state) : i \in BothKnown}) >= 2
        /\ ~Unwrap(output).precheck => TravelSkipped

\* Two countries, one of them on a log without a state: the precheck is
\* false.
C22_SecondCountryMissed ==
    /\ IsSome(output)
    /\ CountriesSeen = {"US", "CN"}
    /\ ~Unwrap(output).precheck

\* The home state of the account is state s, by its name or as the
\* abbreviation of its name
HomeStateIs(s) ==
    /\ input.location # None
    /\ Unwrap(input.location).state # None
    /\ \/ Unwrap(Unwrap(input.location).state) = s
       \/ <<s, Unwrap(Unwrap(input.location).state)>> \in STATE_ABBREVIATIONS

NewestTime ==
    CHOOSE t \in {input.logins[i].time : i \in 1..Len(input.logins)} :
        \A i \in 1..Len(input.logins) : input.logins[i].time <= t

\* (b): created less than 180 days before the newest log, and a checked log
\* with the reason "deny unenrolled user"
RecentAndUnenrolled ==
    /\ Unwrap(input.creation_date) > NewestTime - 180 * 86400
    /\ \E i \in 1..input.checked_login_count :
          input.logins[i].reason = "DenyUnenrolledUser"

\* (c): every non-VPN checked log with a state is from the home state
AllFromHome ==
    \A i \in NonVpnChecked :
        input.logins[i].state # None => HomeStateIs(Unwrap(input.logins[i].state))

FraudInWindow ==
    Cardinality({i \in 1..input.checked_login_count :
                    input.logins[i].result = "Fraud"})

----------------------------------------------------------------------------
(* Properties of the third pass on one account, under ThirdSpec            *)

\* The account before the loop, and after it
Before == input.user
Looped == Unwrap(output).looped

\* The checked logs the loop asks the provider about
Asked ==
    {i \in 1..Before.checked_login_count :
        /\ Before.logins[i].ip # None
        /\ Unwrap(Before.logins[i].ip) \notin VPN_IPS
        /\ ~is_priv_ip(Before.logins[i])}

\* The provider's answer for log i is at hand: in the cache from the start,
\* or fetched for this log or for an earlier log of the same address
Available(i) ==
    \/ Unwrap(Before.logins[i].ip) \in DOMAIN input.tbl
    \/ \E j \in Asked :
          j <= i /\ j \in input.up /\ Before.logins[j].ip = Before.logins[i].ip

Provider(i) == IpInfoOf(Unwrap(Before.logins[i].ip))

\* (i): the log before it has a location, and the provider's location is
\* strictly nearer to that than the location of the log
NearerToPrevious(i) ==
    /\ i > 1
    /\ Looped.logins[i - 1].location # None
    /\ Before.logins[i].location # None
    /\ haversine_distance(Unwrap(Looped.logins[i - 1].location), Provider(i).loc)
         < haversine_distance(Unwrap(Looped.logins[i - 1].location),
                              Unwrap(Before.logins[i].location))

\* (ii): the provider's city is the home city, or its region is the home
\* state by name or by abbreviation
AtHome(i) ==
    /\ Before.location # None
    /\ \/ Unwrap(Before.location).city = Provider(i).city
       \/ /\ Unwrap(Before.location).state # None
          /\ \/ Unwrap(Unwrap(Before.location).state) = Provider(i).region
             \/ <<Provider(i).region, Unwrap(Unwrap(Before.location).state)>>
                   \in STATE_ABBREVIATIONS

Place(login) ==
    <<login.location, login.country, login.state, login.city>>
ProviderPlace(i) ==
    <<Some(Provider(i).loc), Some(Provider(i).country),
      Some(Provider(i).region), Some(Provider(i).city)>>

\* C24: in pass 3, each checked log on a non-VPN, non-private address for
\* which the provider's geolocation is at hand has its location, country,
\* state and city overwritten with the provider's iff (i) the log before it
\* has a location and the provider's location is strictly nearer to it than
\* the log's own, or (ii) the provider's city is the home city or its
\* region the home state; otherwise the log is left as it was.
C24_AsStated ==
    IsSome(output) =>
        \A i \in Asked :
            Available(i) =>
                Place(Looped.logins[i]) =
                    IF NearerToPrevious(i) \/ AtHome(i)
                    THEN ProviderPlace(i)
                    ELSE Place(Before.logins[i])

\* What holds: the rule of C24 for the logs that have a location; a log
\* without one is left as it was.
C24_LocatedLogsOnly ==
    IsSome(output) =>
        \A i \in Asked :
            Available(i) =>
                Place(Looped.logins[i]) =
                    IF /\ Before.logins[i].location # None
                       /\ (NearerToPrevious(i) \/ AtHome(i))
                    THEN ProviderPlace(i)
                    ELSE Place(Before.logins[i])

\* A log without a location whose provider city is the home city, left
\* without a place.
C24_UnlocatedLeft ==
    /\ IsSome(output)
    /\ \E i \in Asked :
          /\ Available(i)
          /\ AtHome(i)
          /\ Before.logins[i].location = None
          /\ Looped.logins[i].city = None

----------------------------------------------------------------------------
(* Properties of the coordinate pairs, under CoordSpec                     *)

\* The calls of haversine_distance made so far, as it has read its pairs
Readings == IF IsSome(output) THEN Unwrap(output) ELSE <<>>

\* C25: every pair given to haversine_distance is (longitude, latitude),
\* whichever of the three producers built it (the enrichment of Login::new,
\* the overwrite of pass 3, the provider location of closer_to): what the
\* function reads as a latitude is a latitude, and as a longitude a
\* longitude.
C25_AsStated ==
    \A k \in 1..Len(Readings) :
        /\ Readings[k].theta1.axis = "lat"
        /\ Readings[k].theta2.axis = "lat"
        /\ Readings[k].lambda1.axis = "lon"
        /\ Readings[k].lambda2.axis = "lon"

\* What holds: the three producers agree with one another, and every call
\* reads a longitude where the formula has a latitude and a latitude where
\* it has a longitude.
C25_ProducersAgreeReaderSwaps ==
    \A k \in 1..Len(Readings) :
        /\ Readings[k].theta1.axis = "lon"
        /\ Readings[k].theta2.axis = "lon"
        /\ Readings[k].lambda1.axis = "lat"
        /\ Readings[k].lambda2.axis = "lat"

\* closer_to has compared a log of Login::new with a log of pass 3 and with
\* the provider's location.
C25_AllProducersMet ==
    /\ Len(Readings) = 2
    /\ ~input.prev.overwritten
    /\ input.next.overwritten
    /\ Readings[2].theta2 = Lon(input.ip)

----------------------------------------------------------------------------
(* Properties of the flags of the logs, under VibeSpec                     *)

\* How many times log i of the account carries the flag reason
FlagCount(i, reason) ==
    Cardinality({n \in 1..Len(account.logins[i].flag_reasons) :
                   account.logins[i].flag_reasons[n] = reason})

FlagReasons == {"Fraud", "Failure", "Dmp", "Travel"}

\* C26: the flags of a log form a set: after any number of first vibe
\* checks no log carries a FlagReason more than once; the middle one of
\* three mutually distant logs, which belongs to two impossible-travel
\* pairs, carries Travel exactly once.
C26_AsStated ==
    \A i \in 1..Len(account.logins) :
        \A reason \in FlagReasons : FlagCount(i, reason) <= 1

\* What holds: Fraud and Dmp at most once, Failure never, and Travel once
\* for each flagged pair the log belongs to, so at most twice.
C26_TravelPerPair ==
    \A i \in 1..Len(account.logins) :
        /\ FlagCount(i, "Fraud") <= 1
        /\ FlagCount(i, "Dmp") <= 1
        /\ FlagCount(i, "Failure") = 0
        /\ FlagCount(i, "Travel") <= 2

\* Three logs, each far from the next: the middle one carries Travel twice,
\* the outer ones once, also after the second check.
C26_MiddleFlaggedTwice ==
    /\ runs = 2
    /\ Len(account.logins) = 3
    /\ FlagCount(1, "Travel") = 1
    /\ FlagCount(2, "Travel") = 2
    /\ FlagCount(3, "Travel") = 1

----------------------------------------------------------------------------
(* Properties of the cached metadata, under HdSpec                         *)

\* The row of the account is in the cache, and get_hdtools reads it
Cached == get_hdtools(hdtools, input.user.name)

\* C27: the metadata of an account comes back from the cache as it was
\* stored: get_hdtools after add_hdtools returns the same optional location
\* (an absent location, state or country stays absent), and the second vibe
\* check of a later run served from the cache decides as the run that
\* fetched the metadata did.
C27_AsStated ==
    /\ (IsSome(output) /\ IsSome(input.answer)) =>
          /\ IsSome(Cached)
          /\ Unwrap(Cached).location = Unwrap(input.answer).location
    /\ (IsSome(output) /\ Unwrap(output).runs = 2) =>
          IsSome(Unwrap(output).warm) = IsSome(Unwrap(output).cold)

\* What holds: a location that is present comes back as it was, an absent
\* one comes back as a location of city "" without state and country, and
\* the creation date comes back moved by the offset of the local time.
C27_WhatComesBack ==
    (IsSome(output) /\ IsSome(input.answer)) =>
        /\ IsSome(Cached)
        /\ Unwrap(Cached).location =
              IF IsSome(Unwrap(input.answer).location)
              THEN Unwrap(input.answer).location
              ELSE Some([city |-> "", state |-> None, country |-> None])
        /\ Unwrap(Cached).date = Unwrap(input.answer).date + UtcOffset

\* An account without a location, created recently: kept by the run that
\* fetched the metadata, dropped by the run served from the cache.
C27_KeptColdDroppedWarm ==
    /\ IsSome(output)
    /\ Unwrap(output).runs = 2
    /\ IsSome(input.answer)
    /\ Unwrap(input.answer).location = None
    /\ IsSome(Unwrap(output).cold)
    /\ ~IsSome(Unwrap(output).warm)

\* An account with a location whose creation date is just inside the 180
\* days: dropped by the first run, kept by the second.
C27_DroppedColdKeptWarm ==
    /\ IsSome(output)
    /\ Unwrap(output).runs = 2
    /\ IsSome(input.answer)
    /\ IsSome(Unwrap(input.answer).location)
    /\ ~IsSome(Unwrap(output).cold)
    /\ IsSome(Unwrap(output).warm)

----------------------------------------------------------------------------
(* Properties of the verdict on an address, under ThreatSpec               *)

\* The second call has returned the row the first call cached
ServedFromCache ==
    /\ IsSome(output)
    /\ Unwrap(output).calls = 2
    /\ IsSome(Unwrap(output).first)

\* C28: get_ipthreat gives the same verdict whether its value was fetched
\* or comes from the cache: for every fetched IpThreat t, also one with its
\* nine flags off and a blocklist, the value a later call returns from the
\* cache has the vibe_check() of t.
C28_AsStated ==
    ServedFromCache =>
        vibe_check(Unwrap(Unwrap(output).last))
            = vibe_check(Unwrap(Unwrap(output).first))

\* What holds: the cached value has the nine flags of t and no blocklists,
\* so the verdicts agree unless t has its flags off and is on a blocklist.
C28_FlagsKeptBlocklistsLost ==
    ServedFromCache =>
        LET t == Unwrap(Unwrap(output).first)
            c == Unwrap(Unwrap(output).last)
        IN /\ \A f \in ThreatFlags : c[f] = t[f]
           /\ c.blocklists = <<>>
           /\ (vibe_check(c) = vibe_check(t))
                 = ~(t.blocklists # <<>> /\ \A f \in ThreatFlags : ~t[f])

\* An address on a blocklist with its flags off: a threat when fetched,
\* clean when read from the cache.
C28_CleanFromCache ==
    /\ ServedFromCache
    /\ ~vibe_check(Unwrap(Unwrap(output).first))
    /\ vibe_check(Unwrap(Unwrap(output).last))

----------------------------------------------------------------------------
(* Properties of the exits of the first vibe check, under VibeSpec         *)

NoFlags == \A i \in 1..Len(account.logins) : account.logins[i].flag_reasons = <<>>
Dropped ==
    /\ ret = Some(TRUE)
    /\ account.score = 0
    /\ account.reasons = <<>>
    /\ NoFlags
\* what the travel check would find on the account, were it run
TravelWouldFlag ==
    /\ impossible_travel_precheck(account)
    /\ impossible_travel(account).travel > 0

\* C29: the exits come before any counting.  An account with a Fraud log in
\* its window whose non-VPN checked logs are from one of the home sets of
\* states leaves by the home state exit with score 0, no reasons and no log
\* flagged, so pass 2 never sees it; an account whose checked logs are all
\* Success leaves before the travel check, also with nothing counted.
C29_ExitsBeforeCounting ==
    runs >= 1 =>
        /\ (FraudCount >= 1 /\ StateSet \in HomeSets) =>
               (ended = "in_state" /\ Dropped)
        /\ NonSuccess = {} =>
               (ended \in {"perfect", "empty"} /\ travel = 0 /\ Dropped)

\* A Fraud log from Clemson among logs of South Carolina: dropped.
C29_Witness ==
    /\ runs >= 1
    /\ FraudCount >= 1
    /\ StateSet = {"South Carolina"}
    /\ ended = "in_state"
    /\ Dropped

\* Success from Clemson and from New York within the hour: dropped, with
\* a travel the check would have flagged.
C29_TravelNotEvaluated ==
    /\ runs >= 1
    /\ account.checked_login_count >= 2
    /\ NonSuccess = {}
    /\ TravelWouldFlag
    /\ ended = "perfect"
    /\ Dropped

----------------------------------------------------------------------------
(* Properties of what the third pass leaves alone, under ThirdSpec         *)

\* The account the closure returns, when it keeps it
Kept == Unwrap(output).out.item

\* A log without the four fields of its place and without its flags
Placeless(login) ==
    [login EXCEPT !.location = None, !.country = None, !.state = None,
                  !.city = None, !.flag_reasons = <<>>]

\* An account without its score and reasons, the logs of its window
\* without place and flags, and the logs after the window as they are
Frame(user) ==
    [user EXCEPT
       !.score = 0,
       !.reasons = <<>>,
       !.logins = [i \in 1..Len(user.logins) |->
                     IF i <= user.checked_login_count
                     THEN Placeless(user.logins[i])
                     ELSE user.logins[i]]]

\* the score, the reasons and the flags of every log
Counted(user) ==
    <<user.score, user.reasons,
      [i \in 1..Len(user.logins) |-> user.logins[i].flag_reasons]>>

\* C30: pass 3 changes only the location, country, state and city of logs
\* inside the checked window, and the score, reasons and flags that the
\* first vibe check recomputes.  The loop leaves score, reasons and flags
\* as they were; after the loop and after the check every other field of
\* the account and of its logs (name, checked_login_count, time, result,
\* integration, reason, address, the number and order of the logs) is as
\* before, and every log after the window is untouched.
C30_OnlyPlacesAndCounts ==
    IsSome(output) =>
        /\ Frame(Looped) = Frame(Before)
        /\ Counted(Looped) = Counted(Before)
        /\ IsSome(Kept) => Frame(Unwrap(Kept)) = Frame(Before)

\* An account kept by the pass, with a log after its window, a log of the
\* window moved to the provider's place and a score that has changed.
C30_Witness ==
    /\ IsSome(output)
    /\ IsSome(Kept)
    /\ Len(Before.logins) > Before.checked_login_count
    /\ \E i \in 1..Before.checked_login_count :
          /\ Place(Unwrap(Kept).logins[i]) # Place(Before.logins[i])
          /\ Place(Unwrap(Kept).logins[i]) = ProviderPlace(i)
    /\ Unwrap(Kept).score # Before.score

====
